---- MODULE Spec2Model ----
(***************************************************************************)
(* SQL lineage extraction engine: parseSQL (the structural parser) and     *)
(* buildFlowElements (the graph assembler) of                              *)
(* src/app/frontend/src/lib/flowLayoutEngine.ts.                           *)
(*                                                                         *)
(* Representation of text.  A string of the program is a sequence of       *)
(* lexemes, and a lexeme is a non-empty sequence of one-character strings: *)
(*   - a whitespace lexeme is one whitespace character (<<" ">>, <<"\n">>);*)
(*   - each of ( ) , ; and the quote and backslash characters is a lexeme  *)
(*     of its own;                                                         *)
(*   - every other lexeme is a maximal run of other characters (a chunk),  *)
(*     so two chunks are never adjacent.                                   *)
(* A position of the program's string is a lexeme index here (1-based, so  *)
(* the program's index i is i+1), and the program's -1 stays -1.           *)
(* Identifiers (names, ids, known names) are chunks: sequences of          *)
(* characters.  Regular expressions are translated on this representation: *)
(* \s is a whitespace lexeme, \w+ is the longest prefix of word characters *)
(* of a chunk, a case-insensitive keyword followed by \s is a chunk that   *)
(* ends with the keyword, and so on; each translation names its regex.     *)
(***************************************************************************)
EXTENDS Integers, Sequences, FiniteSets, TLC

VARIABLES
    sql,        \* the script handed to parseSQL
    pc,         \* position in parseSQL / buildFlowElements
    pre,        \* result of the preprocessing of parseSQL (lines 1380-1395)
    ps,         \* the parser's accumulators: ctes, subQueries, counter, cache
    parsed,     \* the ParsedSQL returned by parseSQL
    graph,      \* the assembler's accumulators: nodes, edges, addedEdges, ...
    loops,      \* one processSQL call seen alone: its text and its replacement loops
    keys        \* one name and the match keys computed from it

vars == <<sql, pc, pre, ps, parsed, graph, loops, keys>>

----------------------------------------------------------------------------
(* Characters *)

LowerOf ==
    ("A" :> "a") @@ ("B" :> "b") @@ ("C" :> "c") @@ ("D" :> "d") @@
    ("E" :> "e") @@ ("F" :> "f") @@ ("G" :> "g") @@ ("H" :> "h") @@
    ("I" :> "i") @@ ("J" :> "j") @@ ("K" :> "k") @@ ("L" :> "l") @@
    ("M" :> "m") @@ ("N" :> "n") @@ ("O" :> "o") @@ ("P" :> "p") @@
    ("Q" :> "q") @@ ("R" :> "r") @@ ("S" :> "s") @@ ("T" :> "t") @@
    ("U" :> "u") @@ ("V" :> "v") @@ ("W" :> "w") @@ ("X" :> "x") @@
    ("Y" :> "y") @@ ("Z" :> "z")

UpperChars == DOMAIN LowerOf

LowerChars == {LowerOf[c] : c \in UpperChars}

DigitChars == {"0", "1", "2", "3", "4", "5", "6", "7", "8", "9"}

\* \w of the regular expressions
WordChars == UpperChars \cup LowerChars \cup DigitChars \cup {"_"}

\* String.prototype.toLowerCase
toLowerCase(s) ==
    [i \in 1..Len(s) |-> IF s[i] \in UpperChars THEN LowerOf[s[i]] ELSE s[i]]

StartsWith(s, p) == Len(s) >= Len(p) /\ SubSeq(s, 1, Len(p)) = p

EndsWith(s, p) == Len(s) >= Len(p) /\ SubSeq(s, Len(s) - Len(p) + 1, Len(s)) = p

Includes(s, p) == \E i \in 1..(Len(s) - Len(p) + 1) : SubSeq(s, i, i + Len(p) - 1) = p

\* the decimal digits of a small number, as characters
Digits(n) == IF n < 10 THEN <<ToString(n)>> ELSE <<ToString(n \div 10), ToString(n % 10)>>

----------------------------------------------------------------------------
(* Lexemes *)

SP == <<" ">>
NL == <<"\n">>
LP == <<"(">>
RP == <<")">>
COMMA == <<",">>
SEMI == <<";">>
SQUOTE == <<"'">>
DQUOTE == <<"\"">>
\* the backquote character, which a TLA+ string cannot hold
BQUOTE == <<"BACKQUOTE">>
BSLASH == <<"\\">>
STAR == <<"*">>
DASHES == <<"-", "-">>
COPEN == <<"/", "*">>
CCLOSE == <<"*", "/">>

IsSpace(tok) == tok = SP \/ tok = NL

Singles == {SP, NL, LP, RP, COMMA, SEMI, SQUOTE, DQUOTE, BQUOTE, BSLASH}

IsChunk(tok) == tok \notin Singles

\* keywords, lower case: the regular expressions are case-insensitive
kwSelect == <<"s", "e", "l", "e", "c", "t">>
kwFrom == <<"f", "r", "o", "m">>
kwJoin == <<"j", "o", "i", "n">>
kwOn == <<"o", "n">>
kwAs == <<"a", "s">>
kwWith == <<"w", "i", "t", "h">>
kwWhere == <<"w", "h", "e", "r", "e">>
kwGroup == <<"g", "r", "o", "u", "p">>
kwBy == <<"b", "y">>
kwHaving == <<"h", "a", "v", "i", "n", "g">>
kwOrder == <<"o", "r", "d", "e", "r">>
kwLimit == <<"l", "i", "m", "i", "t">>
kwUnion == <<"u", "n", "i", "o", "n">>
kwAll == <<"a", "l", "l">>
kwInner == <<"i", "n", "n", "e", "r">>
kwLeft == <<"l", "e", "f", "t">>
kwRight == <<"r", "i", "g", "h", "t">>
kwFull == <<"f", "u", "l", "l">>
kwCross == <<"c", "r", "o", "s", "s">>
kwCreate == <<"c", "r", "e", "a", "t", "e">>
kwTable == <<"t", "a", "b", "l", "e">>
kwIf == <<"i", "f">>
kwNot == <<"n", "o", "t">>
kwExists == <<"e", "x", "i", "s", "t", "s">>
kwDistinct == <<"d", "i", "s", "t", "i", "n", "c", "t">>

JoinKinds == {kwInner, kwLeft, kwRight, kwFull, kwCross}

\* the lexeme is exactly the keyword (any case)
Is(tok, kw) == toLowerCase(tok) = kw

\* the lexeme ends with the keyword (any case): an unanchored KEYWORD\s
Ends(tok, kw) == EndsWith(toLowerCase(tok), kw)

\* what precedes the keyword in a lexeme that ends with it, as text
Before(tok, kw) ==
    IF Len(tok) > Len(kw) THEN <<SubSeq(tok, 1, Len(tok) - Len(kw))>> ELSE <<>>

\* the least and the greatest index of a set of indexes, or -1
Least(S) == IF S = {} THEN -1 ELSE CHOOSE i \in S : \A j \in S : i <= j

Greatest(S) == IF S = {} THEN -1 ELSE CHOOSE i \in S : \A j \in S : j <= i

\* the indexes of a set in increasing order
Ascending(S) ==
    [k \in 1..Cardinality(S) |-> CHOOSE i \in S : Cardinality({j \in S : j < i}) = k - 1]

\* the elements of a sequence at the indexes of a set, in order
Pick(seq, S) == [k \in 1..Cardinality(S) |-> seq[Ascending(S)[k]]]

\* the non-empty elements of a sequence of texts: .filter(Boolean)
NonEmpty(seq) == Pick(seq, {i \in 1..Len(seq) : seq[i] # <<>>})

\* the pieces of a text between the cuts (increasing indexes), the cuts left out
Pieces(text, cuts) ==
    [k \in 1..(Len(cuts) + 1) |->
        SubSeq(text,
               IF k = 1 THEN 1 ELSE cuts[k - 1] + 1,
               IF k > Len(cuts) THEN Len(text) ELSE cuts[k] - 1)]

\* the number of characters of a text: String.prototype.length
TextLen(text) ==
    Cardinality(UNION {{i} \X (1..Len(text[i])) : i \in 1..Len(text)})

\* string concatenation: two chunks that become adjacent are one chunk
Cat(a, b) ==
    IF a = <<>> THEN b
    ELSE IF b = <<>> THEN a
    ELSE IF IsChunk(a[Len(a)]) /\ IsChunk(b[1])
         THEN SubSeq(a, 1, Len(a) - 1) \o <<a[Len(a)] \o b[1]>> \o Tail(b)
         ELSE a \o b

\* the first index >= i that holds no whitespace (Len+1 when there is none): \s*
SkipSpace(text, i) ==
    IF i > Len(text) THEN i
    ELSE Least({k \in i..(Len(text) + 1) : k > Len(text) \/ ~IsSpace(text[k])})

\* String.prototype.trim
trim(text) ==
    SubSeq(text,
           Least({k \in 1..(Len(text) + 1) : k > Len(text) \/ ~IsSpace(text[k])}),
           Greatest({k \in 1..Len(text) : ~IsSpace(text[k])}))

\* .map(s => s.trim())
TrimAll(seq) == [k \in 1..Len(seq) |-> trim(seq[k])]

\* the longest prefix of a chunk matching \w+ (empty when there is none)
WordPrefix(tok) ==
    SubSeq(tok, 1,
           Least({i \in 1..(Len(tok) + 1) : i > Len(tok) \/ tok[i] \notin WordChars}) - 1)

IsWord(tok) == tok # <<>> /\ \A i \in 1..Len(tok) : tok[i] \in WordChars

\* the longest prefix of a chunk matching TABLE_NAME_PATTERN \w+(?:\.\w+)*:
\* it stops at the first character that is neither a word character nor a dot
\* between two word characters
TableNamePrefix(tok) ==
    SubSeq(tok, 1,
           Least({i \in 1..(Len(tok) + 1) :
                    \/ i > Len(tok)
                    \/ ~(\/ tok[i] \in WordChars
                         \/ (/\ tok[i] = "." /\ i > 1 /\ i + 1 <= Len(tok)
                             /\ tok[i + 1] \in WordChars))}) - 1)

----------------------------------------------------------------------------
(* Lexical utilities *)

\* /--.*$/gm and /\/\*[\s\S]*?\*\//g, one after the other.  The comment marks
\* --, /* and */ are lexemes of their own.
removeComments(text) ==
    LET \* a lexeme other than a line break goes when a -- precedes it on its line
        NoLine(t) ==
            Pick(t, {i \in 1..Len(t) :
                       \/ t[i] = NL
                       \/ ~(\E d \in 1..i : /\ t[d] = DASHES
                                            /\ \A b \in d..i : t[b] # NL)})
        \* the block comments, from left to right: one step per comment
        RECURSIVE block(_, _)
        block(t, i) ==
            LET Skip(o) ==
                    IF o = -1 THEN SubSeq(t, i, Len(t))
                    ELSE SubSeq(t, i, o - 1)
                         \o block(t, Least({c \in (o + 1)..Len(t) : t[c] = CCLOSE}) + 1)
            IN Skip(Least({k \in i..Len(t) :
                             /\ t[k] = COPEN
                             /\ \E c \in (k + 1)..Len(t) : t[c] = CCLOSE}))
    IN block(NoLine(text), 1)

\* sql.replace(/\s+/g, ' ').trim(): of a run of whitespace the first is kept, as a space
normalizeWhitespace(text) ==
    LET Squeeze(t) ==
            [k \in 1..Len(t) |-> IF IsSpace(t[k]) THEN SP ELSE t[k]]
        Runs(t) ==
            Pick(t, {i \in 1..Len(t) : ~IsSpace(t[i]) \/ ~IsSpace(t[i - 1])})
    IN Squeeze(Runs(trim(text)))

\* the number of ( less the number of ) among the lexemes lo..hi
Balance(text, lo, hi) ==
    Cardinality({k \in lo..hi : text[k] = LP}) - Cardinality({k \in lo..hi : text[k] = RP})

\* a variant of findMatchingParen that takes the end of the text for the closing
\* parenthesis when there is none
findMatchingParenOrEnd(text, start) ==
    IF {i \in start..Len(text) : text[i] = RP /\ Balance(text, start, i) = 0} = {}
    THEN Len(text)
    ELSE Least({i \in start..Len(text) : text[i] = RP /\ Balance(text, start, i) = 0})

\* the first ) at which depth, counted from start, comes back to 0
findMatchingParen(text, start) ==
    Least({i \in start..Len(text) : text[i] = RP /\ Balance(text, start, i) = 0})

\* cleanName: trims and removes one pair of surrounding quotes.  A name is
\* given as the text it was captured from; the result is a chunk.
Flatten(text) ==
    LET RECURSIVE cat(_)
        cat(i) == IF i > Len(text) THEN <<>> ELSE text[i] \o cat(i + 1)
    IN cat(1)

cleanName(text) ==
    LET Unquote(t) ==
            IF Len(t) >= 2 /\ t[1] = t[Len(t)] /\ t[1] \in {DQUOTE, SQUOTE, BQUOTE}
            THEN Flatten(SubSeq(t, 2, Len(t) - 1))
            ELSE Flatten(t)
    IN Unquote(trim(text))

\* a variant of getMatchName that keeps the case of the name
getMatchNameCaseKept(name) ==
    IF StartsWith(name, <<"$", "{">>) /\ EndsWith(name, <<"}">>)
    THEN SubSeq(name, 3, Len(name) - 1)
    ELSE name

\* getMatchName: lower case, then one ${...} wrapper removed
getMatchName(name) ==
    LET Unwrap(cleaned) ==
            IF StartsWith(cleaned, <<"$", "{">>) /\ EndsWith(cleaned, <<"}">>)
            THEN SubSeq(cleaned, 3, Len(cleaned) - 1)
            ELSE cleaned
    IN Unwrap(toLowerCase(name))

----------------------------------------------------------------------------
(* Statements, temp tables and CTEs *)

\* the statements are cut at each ; that is outside the quoted regions and at
\* depth 0, where depth counts the parentheses outside the quoted regions
splitStatements(text) ==
    LET n == Len(text)
        \* the lexemes from an opening quote to the same quote character not
        \* preceded by a backslash (or to the end): one step per region
        RECURSIVE quotedFrom(_)
        quotedFrom(i) ==
            LET Region(q, c) ==
                    IF q = -1 THEN {}
                    ELSE IF c = -1 THEN q..n
                    ELSE (q..c) \cup quotedFrom(c + 1)
                Open(q) ==
                    Region(q, IF q = -1 THEN -1
                              ELSE Least({k \in (q + 1)..n :
                                            text[k] = text[q] /\ text[k - 1] # BSLASH}))
            IN Open(Least({k \in i..n : text[k] \in {SQUOTE, DQUOTE, BQUOTE}}))
        Depth(inQuote, i) ==
            Cardinality({k \in 1..i : k \notin inQuote /\ text[k] = LP})
            - Cardinality({k \in 1..i : k \notin inQuote /\ text[k] = RP})
        Cuts(inQuote) ==
            Ascending({i \in 1..n : /\ i \notin inQuote
                                    /\ text[i] = SEMI
                                    /\ Depth(inQuote, i) = 0})
    IN NonEmpty(TrimAll(Pieces(text, Cuts(quotedFrom(1)))))

\* the match of createTableRegex on one statement (already trimmed):
\* /^\s*CREATE\s+TABLE\s+(?:IF\s+NOT\s+EXISTS\s+)?([^\s(]+)(?:\s+AS)?\s+((?:SELECT|WITH)[\s\S]+)$/i
\* [matched, name (match[1], as text), body (match[2])]
NoCreateMatch == [matched |-> FALSE, name |-> <<>>, body |-> <<>>]

matchCreateTable(stmt) ==
    LET n == Len(stmt)
        \* KEYWORD\s+ at i: the index after the whitespace, or -1 (also when i is -1)
        kw(i, k) == IF i # -1 /\ i + 1 <= n /\ Is(stmt[i], k) /\ IsSpace(stmt[i + 1])
                    THEN SkipSpace(stmt, i + 1) ELSE -1
        \* ([^\s(]+) from j: the index after the maximal run
        run(j) == Least({k \in j..(n + 1) : k > n \/ IsSpace(stmt[k]) \/ stmt[k] = LP})
        isBody(q) ==
            /\ q <= n
            /\ \/ StartsWith(toLowerCase(stmt[q]), kwSelect)
                  /\ (Len(stmt[q]) > Len(kwSelect) \/ q < n)
               \/ StartsWith(toLowerCase(stmt[q]), kwWith)
                  /\ (Len(stmt[q]) > Len(kwWith) \/ q < n)
        \* (?:\s+AS)?\s+((?:SELECT|WITH)[\s\S]+)$ from the whitespace at j
        BodyFrom(p, withAs) ==
            IF withAs # -1 /\ isBody(withAs) THEN withAs
            ELSE IF isBody(p) THEN p ELSE -1
        AsFrom(p) == BodyFrom(p, kw(p, kwAs))
        bodyAt(j) == AsFrom(SkipSpace(stmt, j))
        Named(i, e, b) ==
            IF b = -1 THEN NoCreateMatch
            ELSE [matched |-> TRUE, name |-> SubSeq(stmt, i, e - 1),
                  body |-> SubSeq(stmt, b, n)]
        RunTo(i, e) ==
            Named(i, e, IF e > i /\ e <= n /\ IsSpace(stmt[e]) THEN bodyAt(e) ELSE -1)
        tryName(i) == IF i = -1 THEN NoCreateMatch ELSE RunTo(i, run(i))
        Either(withIf, plain) == IF withIf.matched THEN withIf ELSE plain
        Table(a2) ==
            IF a2 = -1 THEN NoCreateMatch
            ELSE Either(tryName(kw(kw(kw(a2, kwIf), kwNot), kwExists)), tryName(a2))
    IN Table(kw(kw(1, kwCreate), kwTable))

\* nonTempStatements.join(';\n')
joinStatements(stmts) ==
    LET RECURSIVE join(_)
        join(i) == IF i > Len(stmts) THEN <<>>
                   ELSE IF i = 1 THEN stmts[1] \o join(2)
                   ELSE <<SEMI, NL>> \o stmts[i] \o join(i + 1)
    IN join(1)

\* createTableRegex matches a body that starts with SELECT or WITH, so the
\* removal of a surrounding pair of parentheses (lines 790-797) never applies
preprocessTempTables(text) ==
    LET RECURSIVE each(_, _, _, _)
        each(statements, i, tempTables, nonTemp) ==
            LET Matched(m) ==
                    IF m.matched
                    THEN each(statements, i + 1,
                              Append(tempTables,
                                     [name |-> cleanName(m.name), body |-> trim(m.body)]),
                              nonTemp)
                    ELSE each(statements, i + 1, tempTables,
                              Append(nonTemp, statements[i]))
            IN IF i > Len(statements)
               THEN [tempTables |-> tempTables, remainingSQL |-> joinStatements(nonTemp)]
               ELSE Matched(matchCreateTable(statements[i]))
    IN each(splitStatements(text), 1, <<>>, <<>>)

extractCTEs(text) ==
    LET n == Len(text)
        \* /^\s*WITH\s+/i: the index after the match, or -1
        WithAt(p) == IF p + 1 <= n /\ Is(text[p], kwWith) /\ IsSpace(text[p + 1])
                     THEN SkipSpace(text, p + 1) ELSE -1
        \* /^\s*(\w+)\s+AS\s*\(/i at pos: [name index, index of the parenthesis]
        NameAt(q, a, o) ==
            IF /\ o <= n
               /\ IsWord(text[q])
               /\ a > q + 1
               /\ Is(text[a], kwAs)
               /\ text[o] = LP
            THEN <<q, o>> ELSE <<-1, -1>>
        NameFrom(q) ==
            NameAt(q, SkipSpace(text, q + 1), SkipSpace(text, SkipSpace(text, q + 1) + 1))
        nameMatch(pos) == NameFrom(SkipSpace(text, pos))
        RECURSIVE loop(_, _)
        loop(pos, ctes) ==
            LET Stop == [ctes |-> ctes, remainingSQL |-> text]
                \* /^\s*,\s*/ after the closing parenthesis
                After(got, closePos, c) ==
                    IF c <= n /\ text[c] = COMMA
                    THEN loop(SkipSpace(text, c + 1), got)
                    ELSE [ctes |-> got,
                          remainingSQL |-> trim(SubSeq(text, closePos + 1, n))]
                Closed(m, closePos) ==
                    IF closePos = -1 THEN Stop
                    ELSE After(Append(ctes,
                                      [name |-> cleanName(<<text[m[1]]>>),
                                       body |-> trim(SubSeq(text, m[2] + 1, closePos - 1))]),
                               closePos, SkipSpace(text, closePos + 1))
                Named(m) ==
                    IF m[1] = -1 THEN Stop ELSE Closed(m, findMatchingParen(text, m[2]))
            IN IF ~(pos <= n) THEN Stop ELSE Named(nameMatch(pos))
        Start(withEnd) ==
            IF withEnd = -1 THEN [ctes |-> <<>>, remainingSQL |-> text]
            ELSE loop(withEnd, <<>>)
    IN Start(WithAt(SkipSpace(text, 1)))

----------------------------------------------------------------------------
(* Matching helpers shared by the regular expressions *)

\* the keyword as it is written at the end of a lexeme
KwPart(tok, kw) == SubSeq(tok, Len(tok) - Len(kw) + 1, Len(tok))

\* lexeme j ends with one of the keywords kws and whitespace follows it: KEYWORD\s
EndsOneOf(text, j, kws) ==
    /\ j + 1 <= Len(text)
    /\ IsSpace(text[j + 1])
    /\ \E k \in kws : Ends(text[j], k)

\* (?:INNER|LEFT|RIGHT|FULL|CROSS)\s+JOIN\s starting inside lexeme j
KindJoinAt(text, j) ==
    /\ EndsOneOf(text, j, JoinKinds)
    /\ LET q == SkipSpace(text, j + 1)
       IN q + 1 <= Len(text) /\ Is(text[q], kwJoin) /\ IsSpace(text[q + 1])

\* the keyword of kws (or join kind) that lexeme j ends with
TheKw(tok, kws) == CHOOSE k \in kws : Ends(tok, k)

\* a lazy [\s\S]*? from lexeme c0 up to the first position where the lookahead
\* (?=KEYWORD\s|...|$) holds, with (?:KIND\s+)?JOIN\s among the alternatives
\* when joinAlt.  stop = Len+1 when the text ends first; otherwise the capture
\* ends inside lexeme stop, before its keyword.
\* [stop, cond (the capture, untrimmed), rest (the text from the lookahead on)]
LazyUntil(text, c0, kws, joinAlt) ==
    LET n == Len(text)
        Cut(j, kw) ==
            [stop |-> j,
             cond |-> SubSeq(text, c0, j - 1) \o Before(text[j], kw),
             rest |-> <<KwPart(text[j], kw)>> \o SubSeq(text, j + 1, n)]
        Stop(j) ==
            IF j > n
            THEN [stop |-> j, cond |-> SubSeq(text, c0, n), rest |-> <<>>]
            ELSE Cut(j, IF EndsOneOf(text, j, kws) THEN TheKw(text[j], kws)
                        ELSE TheKw(text[j], JoinKinds))
    IN Stop(IF c0 > n THEN n + 1
            ELSE Least({k \in c0..(n + 1) : \/ k > n
                                            \/ EndsOneOf(text, k, kws)
                                            \/ (joinAlt /\ KindJoinAt(text, k))}))

JoinStops == {kwJoin, kwWhere, kwGroup, kwHaving, kwOrder, kwLimit, kwUnion}

----------------------------------------------------------------------------
(* splitByUnion *)

\* a variant of UnionAllAt that never matches
UnionAllAtNever(text, i) == -1

\* /^UNION\s+ALL\s/i at the keyword that ends lexeme i: the index after the match, or -1
UnionAllAt(text, i) ==
    LET n == Len(text)
        a == SkipSpace(text, i + 1)
    IN IF /\ Ends(text[i], kwUnion)
          /\ a > i + 1
          /\ a + 1 <= n
          /\ Is(text[a], kwAll)
          /\ IsSpace(text[a + 1])
       THEN a + 2 ELSE -1

\* /^UNION\s(?!ALL)/i at the keyword that ends lexeme i: the index after the match, or -1
UnionAt(text, i) ==
    LET n == Len(text)
    IN IF /\ Ends(text[i], kwUnion)
          /\ i + 1 <= n
          /\ IsSpace(text[i + 1])
          /\ ~(i + 2 <= n /\ StartsWith(toLowerCase(text[i + 2]), kwAll))
       THEN i + 2 ELSE -1

TypeUnionAll == <<"U", "N", "I", "O", "N", " ", "A", "L", "L">>
TypeUnion == <<"U", "N", "I", "O", "N">>

\* [parts, unionType]; unionType = <<>> stands for null.  The text is cut at each
\* UNION (ALL) found at depth 0; detectedType is the operator of the last cut.
splitByUnion(text) ==
    LET n == Len(text)
        \* the index after the UNION (ALL) of lexeme i, or -1
        After(i) ==
            IF UnionAllAt(text, i) # -1 THEN UnionAllAt(text, i) ELSE UnionAt(text, i)
        Parts(cuts) ==
            LET done == [k \in 1..Len(cuts) |->
                            trim(SubSeq(text,
                                        IF k = 1 THEN 1 ELSE After(cuts[k - 1]),
                                        cuts[k] - 1)
                                 \o Before(text[cuts[k]], kwUnion))]
                Last(current) == IF current # <<>> THEN Append(done, current) ELSE done
            IN Last(trim(SubSeq(text,
                                IF Len(cuts) = 0 THEN 1 ELSE After(cuts[Len(cuts)]),
                                n)))
        Typed(cuts, parts) ==
            [parts |-> parts,
             unionType |-> IF Len(parts) > 1 /\ Len(cuts) > 0
                           THEN (IF UnionAllAt(text, cuts[Len(cuts)]) # -1
                                 THEN TypeUnionAll ELSE TypeUnion)
                           ELSE <<>>]
        Split(cuts) == Typed(cuts, Parts(cuts))
    IN Split(Ascending({i \in 1..n : Balance(text, 1, i) = 0 /\ After(i) # -1}))

----------------------------------------------------------------------------
(* replaceSubqueries *)

txFrom == <<"F", "R", "O", "M">>
txOn == <<"O", "N">>
txJoin == <<"J", "O", "I", "N">>
txInner == <<"I", "N", "N", "E", "R">>

\* `__SUBQ_${counter}__`
Placeholder(counter) == <<"_", "_", "S", "U", "B", "Q", "_">> \o Digits(counter) \o <<"_", "_">>

\* /^\s*SELECT\s/i.test(body)
IsSelectBody(body) ==
    LET p == SkipSpace(body, 1)
    IN p + 1 <= Len(body) /\ Is(body[p], kwSelect) /\ IsSpace(body[p + 1])

\* the first KEYWORD\s*\( at or after lexeme i whose parenthesis closes and holds
\* a SELECT: <<index of the keyword, of the (, of the )>>, or <<>>
FirstExtractable(text, kw, i) ==
    LET n == Len(text)
        Open(j) == SkipSpace(text, j + 1)
        Close(j, open) ==
            IF Ends(text[j], kw) /\ open <= n /\ text[open] = LP
            THEN findMatchingParen(text, open) ELSE -1
        Holds(open, close) ==
            close # -1 /\ IsSelectBody(trim(SubSeq(text, open + 1, close - 1)))
        Hit(j, open) == Holds(open, Close(j, open))
        At(j) == IF j = -1 THEN <<>> ELSE <<j, Open(j), Close(j, Open(j))>>
    IN At(Least({k \in i..n : Hit(k, Open(k))}))

\* the number of occurrences the loops of replaceSubqueries can still extract
RECURSIVE CountExtractable(_, _, _)
CountExtractable(text, kw, i) ==
    LET Count(m) == IF m = <<>> THEN 0 ELSE 1 + CountExtractable(text, kw, m[1] + 1)
    IN Count(FirstExtractable(text, kw, i))

\* afterParen.match(/^\s*(?:AS\s+)?(\w+)/i): [alias, rest (the text after the match)],
\* alias = <<>> when there is no match
AliasMatch(after) ==
    LET n == Len(after)
        Take(k, w) ==
            [alias |-> w,
             rest |-> (IF w = after[k] THEN <<>>
                       ELSE <<SubSeq(after[k], Len(w) + 1, Len(after[k]))>>)
                      \o SubSeq(after, k + 1, n)]
        At(p, q) ==
            IF p <= n /\ Is(after[p], kwAs) /\ q > p + 1 /\ q <= n
               /\ WordPrefix(after[q]) # <<>>
            THEN Take(q, WordPrefix(after[q]))
            ELSE IF p <= n /\ WordPrefix(after[p]) # <<>>
                 THEN Take(p, WordPrefix(after[p]))
                 ELSE [alias |-> <<>>, rest |-> after]
        From(p) == At(p, SkipSpace(after, p + 1))
    IN From(SkipSpace(after, 1))

\* a variant of the FROM iteration that records the subquery and leaves the text
\* as it was
FromStepKeepsText(result, counter, subs) ==
    [result |-> result,
     counter |-> counter + 1,
     subs |-> Append(subs, [placeholder |-> Placeholder(counter), body |-> <<>>,
                            alias |-> <<>>, context |-> "from",
                            joinType |-> <<>>, joinCondition |-> <<>>])]

\* one iteration of the FROM loop that finds a subquery (lines 872-893)
FromStep(result, counter, subs) ==
    LET Replaced(m, am, placeholder) ==
            [result |-> Cat(Cat(SubSeq(result, 1, m[1] - 1) \o Before(result[m[1]], kwFrom),
                                <<txFrom, SP, placeholder, SP>>),
                            Cat(IF am.alias = <<>> THEN <<>> ELSE <<am.alias>>, am.rest)),
             counter |-> counter + 1,
             subs |-> Append(subs, [placeholder |-> placeholder,
                                    body |-> trim(SubSeq(result, m[2] + 1, m[3] - 1)),
                                    alias |-> am.alias, context |-> "from",
                                    joinType |-> <<>>, joinCondition |-> <<>>])]
        Found(m) ==
            Replaced(m, AliasMatch(SubSeq(result, m[3] + 1, Len(result))),
                     Placeholder(counter))
    IN Found(FirstExtractable(result, kwFrom, 1))

\* afterParen.match(/^\s*(?:AS\s+)?(\w+)\s+ON\s+([\s\S]*?)(?=...|$)/i):
\* [matched, alias, cond, rest]
AliasOnMatch(after) ==
    LET n == Len(after)
        \* (\w+)\s+ON\s+ with the alias at lexeme k: the index where the condition starts
        OnAt(k, o, c) ==
            IF /\ k <= n /\ IsWord(after[k])
               /\ o > k + 1 /\ o <= n /\ Is(after[o], kwOn)
               /\ c > o + 1
            THEN c ELSE -1
        onAfter(k) ==
            OnAt(k, SkipSpace(after, k + 1), SkipSpace(after, SkipSpace(after, k + 1) + 1))
        Found(k, c, lz) ==
            IF c = -1 THEN [matched |-> FALSE, alias |-> <<>>, cond |-> <<>>, rest |-> after]
            ELSE [matched |-> TRUE, alias |-> after[k], cond |-> lz.cond, rest |-> lz.rest]
        Until(k, c) == Found(k, c, LazyUntil(after, c, JoinStops, TRUE))
        Choice(p, q, withAs) ==
            IF withAs # -1 THEN Until(q, withAs) ELSE Until(p, onAfter(p))
        At(p, q) ==
            Choice(p, q, IF p <= n /\ Is(after[p], kwAs) /\ q > p + 1
                         THEN onAfter(q) ELSE -1)
        From(p) == At(p, SkipSpace(after, p + 1))
    IN From(SkipSpace(after, 1))

\* the join kind written before the JOIN of lexeme j: the index of its lexeme, or -1
KindBefore(text, j) ==
    LET At(k) ==
            IF /\ Is(text[j], kwJoin) /\ k >= 1 /\ k < j - 1
               /\ \E kind \in JoinKinds : Ends(text[k], kind)
            THEN k ELSE -1
    IN At(Greatest({i \in 1..(j - 1) : ~IsSpace(text[i])}))

\* one iteration of the JOIN loop that finds a subquery (lines 900-929)
JoinStep(result, counter, subs) ==
    LET Replaced(m, k, kind, am, placeholder) ==
            LET \* (m[1] || 'INNER ').trim() + ' JOIN'
                joinType == IF k = -1 THEN <<txInner, SP, txJoin>>
                            ELSE <<KwPart(result[k], kind), SP, txJoin>>
                joinCondition == trim(am.cond)
                beforeJoin ==
                    IF k = -1
                    THEN SubSeq(result, 1, m[1] - 1) \o Before(result[m[1]], kwJoin)
                    ELSE SubSeq(result, 1, k - 1) \o Before(result[k], kind)
                \* m[0].replace(/\s*\($/, '')
                joinKeyword ==
                    IF k = -1 THEN <<KwPart(result[m[1]], kwJoin)>>
                    ELSE <<KwPart(result[k], kind)>> \o SubSeq(result, k + 1, m[1])
            IN [result |->
                    IF am.matched
                    THEN Cat(Cat(beforeJoin, joinKeyword),
                             Cat(<<SP, placeholder, SP, am.alias, SP, txOn, SP>>,
                                 Cat(joinCondition, am.rest)))
                    ELSE Cat(Cat(beforeJoin, joinKeyword),
                             Cat(<<SP, placeholder>>,
                                 SubSeq(result, m[3] + 1, Len(result)))),
                counter |-> counter + 1,
                subs |-> Append(subs, [placeholder |-> placeholder,
                                       body |-> trim(SubSeq(result, m[2] + 1, m[3] - 1)),
                                       alias |-> am.alias, context |-> "join",
                                       joinType |-> joinType,
                                       joinCondition |-> joinCondition])]
        Kind(m, k) ==
            Replaced(m, k, IF k = -1 THEN <<>> ELSE TheKw(result[k], JoinKinds),
                     AliasOnMatch(SubSeq(result, m[3] + 1, Len(result))),
                     Placeholder(counter))
        Found(m) == Kind(m, KindBefore(result, m[1]))
    IN Found(FirstExtractable(result, kwJoin, 1))

\* while (changed) over FROM ( ... ): st = [result, counter, subs]
RECURSIVE fromSubqueries(_)
fromSubqueries(st) ==
    IF FirstExtractable(st.result, kwFrom, 1) = <<>> THEN st
    ELSE fromSubqueries(FromStep(st.result, st.counter, st.subs))

\* while (changed) over JOIN ( ... )
RECURSIVE joinSubqueries(_)
joinSubqueries(st) ==
    IF FirstExtractable(st.result, kwJoin, 1) = <<>> THEN st
    ELSE joinSubqueries(JoinStep(st.result, st.counter, st.subs))

replaceSubqueriesDone(done) == [replaced |-> done.result, subs |-> done.subs]

\* [replaced, subs]: the two while (changed) loops
replaceSubqueries(text) ==
    replaceSubqueriesDone(joinSubqueries(fromSubqueries([result |-> text, counter |-> 0,
                                             subs |-> <<>>])))

----------------------------------------------------------------------------
(* Table references *)

sApp == <<"a", "p", "p">>
sDm == <<"d", "m">>
sDwd == <<"d", "w", "d">>
sDws == <<"d", "w", "s">>

\* a variant of classifyTable that reads the name in the case it was written
classifyTableCaseKept(fullName) ==
    IF \/ Includes(fullName, sApp) \/ Includes(fullName, sDm)
       \/ Includes(fullName, sDwd) \/ Includes(fullName, sDws)
    THEN "fact" ELSE "dimension"

\* a variant of classifyTable that goes by the prefixes fact_ and f_
classifyTableByPrefix(fullName) ==
    IF \/ StartsWith(toLowerCase(fullName), <<"f", "a", "c", "t", "_">>)
       \/ StartsWith(toLowerCase(fullName), <<"f", "_">>)
    THEN "fact" ELSE "dimension"

classifyTable(fullName) ==
    LET lowerName == toLowerCase(fullName)
    IN IF \/ Includes(lowerName, sApp) \/ Includes(lowerName, sDm)
          \/ Includes(lowerName, sDwd) \/ Includes(lowerName, sDws)
       THEN "fact" ELSE "dimension"

\* the index of the first "." of a name, or -1: raw.indexOf('.')
DotIndex(raw) == Least({i \in 1..Len(raw) : raw[i] = "."})

parseTableName(raw) ==
    LET dotIndex == DotIndex(raw)
    IN IF dotIndex # -1
       THEN [fullName |-> raw, schema |-> SubSeq(raw, 1, dotIndex - 1),
             tableName |-> SubSeq(raw, dotIndex + 1, Len(raw))]
       ELSE [fullName |-> raw, schema |-> <<>>, tableName |-> raw]

InvalidAliases ==
    {kwWhere, kwGroup, kwHaving, kwOrder, kwLimit, kwUnion, kwLeft, kwRight, kwInner,
     kwFull, kwCross, kwJoin, kwOn, <<"l", "a", "t", "e", "r", "a", "l">>,
     <<"v", "i", "e", "w">>, <<"e", "x", "p", "l", "o", "d", "e">>,
     <<"u", "n", "n", "e", "s", "t">>}

\* knownNames.some(k => getMatchName(k) is lookupName or lookupFull)
IsKnown(knownNames, lookupName, lookupFull) ==
    \E i \in 1..Len(knownNames) :
        getMatchName(knownNames[i]) \in {lookupName, lookupFull}

\* knownNames.find(...): the first such name, <<>> standing for undefined
FindKnown(knownNames, lookupName, lookupFull) ==
    LET Hit(i) == IF i = -1 THEN <<>> ELSE knownNames[i]
    IN Hit(Least({i \in 1..Len(knownNames) :
                    getMatchName(knownNames[i]) \in {lookupName, lookupFull}}))

\* type "none" stands for undefined (a reference to a known unit)
createTableRef(rawName, alias, knownNames) ==
    LET Ref(p) ==
            [name |-> p.fullName, schema |-> p.schema, tableName |-> p.tableName,
             alias |-> IF alias # <<>> /\ toLowerCase(alias) \notin InvalidAliases
                       THEN alias ELSE p.fullName,
             type |-> IF IsKnown(knownNames, getMatchName(p.tableName),
                                 getMatchName(p.fullName))
                      THEN "none" ELSE classifyTable(p.fullName)]
    IN Ref(parseTableName(cleanName(<<rawName>>)))

----------------------------------------------------------------------------
(* The regular expressions of parseFlatSelect *)

\* /FROM\s+(\w+(?:\.\w+)*)(\s+(?:AS\s+)?(\w+))?/i, first match:
\* [matched, raw (group 1), alias (group 3, <<>> when absent)]
FromMatch(text) ==
    LET n == Len(text)
        Hit(i, t) ==
            /\ Ends(text[i], kwFrom)
            /\ t > i + 1
            /\ t <= n
            /\ TableNamePrefix(text[t]) # <<>>
        Alias(t, raw, a, b) ==
            IF raw # text[t] \/ ~(a > t + 1) \/ a > n THEN <<>>
            ELSE IF Is(text[a], kwAs) /\ b > a + 1 /\ b <= n /\ WordPrefix(text[b]) # <<>>
                 THEN WordPrefix(text[b])
                 ELSE WordPrefix(text[a])
        Named(t, raw) ==
            [matched |-> TRUE, raw |-> raw,
             alias |-> Alias(t, raw, SkipSpace(text, t + 1),
                             SkipSpace(text, SkipSpace(text, t + 1) + 1))]
        At(i) ==
            IF i = -1 THEN [matched |-> FALSE, raw |-> <<>>, alias |-> <<>>]
            ELSE Named(SkipSpace(text, i + 1), TableNamePrefix(text[SkipSpace(text, i + 1)]))
    IN At(Least({i \in 1..n : Hit(i, SkipSpace(text, i + 1))}))

\* /^(WHERE|GROUP|HAVING|ORDER|LIMIT|UNION|LEFT|RIGHT|INNER|FULL|CROSS|JOIN)$/i.test(alias)
IsKeywordAlias(alias) ==
    toLowerCase(alias) \in {kwWhere, kwGroup, kwHaving, kwOrder, kwLimit, kwUnion,
                            kwLeft, kwRight, kwInner, kwFull, kwCross, kwJoin}

\* the match of joinRegex that starts at the JOIN of lexeme j, if there is one:
\* [matched, joinType, raw, alias, condition, rest (the text after the match)]
JoinMatchAt(text, j) ==
    LET n == Len(text)
        named(t) ==
            /\ Ends(text[j], kwJoin) /\ t > j + 1 /\ t <= n
            /\ TableNamePrefix(text[t]) # <<>>
            /\ TableNamePrefix(text[t]) = text[t]
        \* \s+ON\s+ right after lexeme k: the index where the condition starts, or -1
        OnAt(k, o, c) ==
            IF o > k + 1 /\ o <= n /\ Is(text[o], kwOn) /\ c > o + 1 THEN c ELSE -1
        onAfter(k) ==
            OnAt(k, SkipSpace(text, k + 1), SkipSpace(text, SkipSpace(text, k + 1) + 1))
        Match(t, c, alias, k, lz) ==
            IF ~named(t) \/ c = -1
            THEN [matched |-> FALSE, joinType |-> <<>>, raw |-> <<>>, alias |-> <<>>,
                  condition |-> <<>>, rest |-> <<>>]
            ELSE [matched |-> TRUE,
                  joinType |-> IF k = -1 THEN <<txInner, SP, txJoin>>
                               ELSE <<KwPart(text[k], TheKw(text[k], JoinKinds)), SP, txJoin>>,
                  raw |-> text[t], alias |-> alias, condition |-> trim(lz.cond),
                  rest |-> lz.rest]
        Cond(t, c, alias) ==
            Match(t, c, alias, KindBefore(text, j), LazyUntil(text, c, JoinStops, TRUE))
        \* (\s+(?:AS\s+)?(\w+))? in the order the regex tries it
        Alias(t, a, b, withAs, plain) ==
            IF withAs # -1 THEN Cond(t, withAs, text[b])
            ELSE IF plain # -1 THEN Cond(t, plain, text[a])
            ELSE Cond(t, onAfter(t), <<>>)
        Tries(t, a, b) ==
            Alias(t, a, b,
                  IF a > t + 1 /\ a <= n /\ Is(text[a], kwAs) /\ b > a + 1 /\ b <= n
                     /\ IsWord(text[b])
                  THEN onAfter(b) ELSE -1,
                  IF a > t + 1 /\ a <= n /\ IsWord(text[a]) THEN onAfter(a) ELSE -1)
        From(t) == Tries(t, SkipSpace(text, t + 1), SkipSpace(text, SkipSpace(text, t + 1) + 1))
    IN From(SkipSpace(text, j + 1))

\* all matches of the global joinRegex, in order
RECURSIVE JoinMatches(_)
\* a match, then the matches in the text after it
JoinMatchesAfter(m) == <<m>> \o JoinMatches(m.rest)

JoinMatchesFirst(matches, j) == IF j = -1 THEN <<>> ELSE JoinMatchesAfter(matches[j])

JoinMatchesOf(matches) ==
    JoinMatchesFirst(matches, Least({k \in 1..Len(matches) : matches[k].matched}))

JoinMatches(text) == JoinMatchesOf([k \in 1..Len(text) |-> JoinMatchAt(text, k)])

\* /KEYWORD\s+([\s\S]*?)(?=STOPS|$)/i, first match: the capture trimmed, as a
\* one-element sequence, or <<>> when there is no match
ClauseMatch(text, kw, stops) ==
    LET At(i) ==
            IF i = -1 THEN <<>>
            ELSE <<trim(LazyUntil(text, SkipSpace(text, i + 1), stops, FALSE).cond)>>
    IN At(Least({k \in 1..Len(text) : EndsOneOf(text, k, {kw})}))

\* /KEYWORD\s+BY\s+([\s\S]*?)(?=STOPS|$)/i, first match, then
\* .split(',').map(s => s.trim()).filter(Boolean)
ByListMatch(text, kw, stops) ==
    LET n == Len(text)
        Hit(i, by) ==
            /\ EndsOneOf(text, i, {kw})
            /\ by + 1 <= n
            /\ Is(text[by], kwBy)
            /\ IsSpace(text[by + 1])
        Split(cap) ==
            NonEmpty(TrimAll(Pieces(cap, Ascending({k \in 1..Len(cap) : cap[k] = COMMA}))))
        At(i) ==
            IF i = -1 THEN <<>>
            ELSE Split(LazyUntil(text, SkipSpace(text, SkipSpace(text, i + 1) + 1),
                                 stops, FALSE).cond)
    IN At(Least({i \in 1..n : Hit(i, SkipSpace(text, i + 1))}))

\* the pieces between the delimiters found at depth 0; the last piece is
\* dropped when it is blank
splitTopLevel(str, delimiter) ==
    LET Kept(pieces) ==
            IF trim(pieces[Len(pieces)]) # <<>> THEN pieces
            ELSE SubSeq(pieces, 1, Len(pieces) - 1)
    IN Kept(Pieces(str, Ascending({i \in 1..Len(str) :
                                     str[i] = delimiter /\ Balance(str, 1, i) = 0})))

\* /SELECT\s+(DISTINCT\s+)?([\s\S]*?)\s+FROM\s/i, first match: group 2 split at
\* top-level commas, each field trimmed, the empty ones dropped.  A field is kept
\* as its text (parseField only decorates it).
SelectFields(text) ==
    LET n == Len(text)
        \* \s+FROM\s with the whitespace at f-1 not taken by what precedes
        from(low) ==
            Least({f \in (low + 1)..n : /\ IsSpace(text[f - 1]) /\ Is(text[f], kwFrom)
                                        /\ f + 1 <= n /\ IsSpace(text[f + 1])})
        \* the match that starts at the SELECT of lexeme i: [start, from] or <<>>
        Span(s, d, withD, plain) ==
            IF withD # -1 THEN <<d, withD>>
            ELSE IF plain # -1 THEN <<s, plain>> ELSE <<>>
        Distinct(s, d) ==
            Span(s, d,
                 IF s <= n /\ Is(text[s], kwDistinct) /\ d > s + 1 THEN from(d) ELSE -1,
                 from(s))
        at(i) == Distinct(SkipSpace(text, i + 1), SkipSpace(text, SkipSpace(text, i + 1) + 1))
        Fields(m) ==
            NonEmpty(TrimAll(splitTopLevel(
                SubSeq(text, m[1], Greatest({k \in 1..(m[2] - 1) : ~IsSpace(text[k])})),
                COMMA)))
        At(j) == IF j = -1 THEN <<>> ELSE Fields(at(j))
    IN At(Least({k \in 1..n : EndsOneOf(text, k, {kwSelect}) /\ at(k) # <<>>}))

----------------------------------------------------------------------------
(* UNION detection *)

\* unionInfo === undefined
NoUnion == [type |-> <<>>, sources |-> <<>>]

\* sources.push(knownMatch || fromMatch[1]) of one part
UnionSource(fromMatch, knownMatch) ==
    IF ~fromMatch.matched THEN <<>>
    ELSE IF knownMatch # <<>> THEN <<knownMatch>>
    ELSE <<fromMatch.raw>>

UnionSourceOf(fromMatch, knownNames) ==
    UnionSource(fromMatch,
                FindKnown(knownNames, getMatchName(fromMatch.raw),
                          getMatchName(fromMatch.raw)))

\* for (const part of parts): the sources of the parts from the k-th on
RECURSIVE UnionSources(_, _, _)
UnionSources(parts, k, knownNames) ==
    IF k > Len(parts) THEN <<>>
    ELSE UnionSourceOf(FromMatch(trim(parts[k])), knownNames)
         \o UnionSources(parts, k + 1, knownNames)

UnionInfoOf(split, sources) ==
    IF Len(split.parts) <= 1 \/ split.unionType = <<>> THEN NoUnion
    ELSE IF Len(sources) > 0 THEN [type |-> split.unionType, sources |-> sources]
    ELSE NoUnion

UnionInfoOfSplit(split, knownNames) ==
    UnionInfoOf(split, UnionSources(split.parts, 1, knownNames))

detectUnionAllTopLevel(text, knownNames) ==
    UnionInfoOfSplit(splitByUnion(text), knownNames)

\* the parenthesis that closes the one opened at lexeme open after the FROM of
\* lexeme i, or -1
SubqueryClose(text, i, open) ==
    IF Ends(text[i], kwFrom) /\ open <= Len(text) /\ text[open] = LP
    THEN findMatchingParen(text, open) ELSE -1

SubqueryUnion(text, open, close, knownNames) ==
    IF close = -1 THEN NoUnion
    ELSE detectUnionAllTopLevel(trim(SubSeq(text, open + 1, close - 1)), knownNames)

SubqueryUnionFrom(text, i, open, knownNames) ==
    SubqueryUnion(text, open, SubqueryClose(text, i, open), knownNames)

SubqueryUnionAt(text, i, knownNames) ==
    SubqueryUnionFrom(text, i, SkipSpace(text, i + 1), knownNames)

FirstUnion(infos, k) == IF k = -1 THEN NoUnion ELSE infos[k]

FirstUnionOf(infos) ==
    FirstUnion(infos, Least({k \in 1..Len(infos) : infos[k] # NoUnion}))

\* the first FROM ( ... ) whose parenthesis closes and whose content is a UNION
\* with sources
detectUnionAllInSubquery(text, knownNames) ==
    FirstUnionOf([k \in 1..Len(text) |-> SubqueryUnionAt(text, k, knownNames)])

\* detectUnionAllTopLevel(normalized) || detectUnionAllInSubquery(normalized)
UnionTopOr(normalized, top, knownNames) ==
    IF top # NoUnion THEN top ELSE detectUnionAllInSubquery(normalized, knownNames)

detectUnionAllOf(normalized, knownNames) ==
    UnionTopOr(normalized, detectUnionAllTopLevel(normalized, knownNames), knownNames)

detectUnionAll(text, knownNames) ==
    detectUnionAllOf(normalizeWhitespace(text), knownNames)

\* /GROUP\s+BY|JOIN|WHERE|HAVING|\(SELECT/i.test(part)
IsComplexPart(part) ==
    \E i \in 1..Len(part) :
        \/ /\ IsChunk(part[i])
           /\ \/ Includes(toLowerCase(part[i]), kwJoin)
              \/ Includes(toLowerCase(part[i]), kwWhere)
              \/ Includes(toLowerCase(part[i]), kwHaving)
        \/ /\ Ends(part[i], kwGroup)
           /\ SkipSpace(part, i + 1) > i + 1
           /\ SkipSpace(part, i + 1) <= Len(part)
           /\ StartsWith(toLowerCase(part[SkipSpace(part, i + 1)]), kwBy)
        \/ /\ part[i] = LP
           /\ i + 1 <= Len(part)
           /\ StartsWith(toLowerCase(part[i + 1]), kwSelect)

\* a variant of IsComplex that finds no union complex
IsComplexNever(unionParts) == FALSE

\* the loop that sets isComplex / isComplexUnion over the union parts
IsComplex(unionParts) == \E k \in 1..Len(unionParts) : IsComplexPart(unionParts[k])

----------------------------------------------------------------------------
(* parseFlatSelect *)

PlaceholderPrefix == <<"_", "_", "S", "U", "B", "Q", "_">>

\* if (!dependsOn.includes(x)) dependsOn.push(x)
PushNew(list, x) == IF \E k \in 1..Len(list) : list[k] = x THEN list ELSE Append(list, x)

\* if (!tables.find(t => t.name === tableRef.name)) tables.push(tableRef)
PushTable(tables, tableRef) ==
    IF \E k \in 1..Len(tables) : tables[k].name = tableRef.name THEN tables
    ELSE Append(tables, tableRef)

\* the knownNames.find(...) and dependsOn.push that follow every table reference
PushKnown(dependsOn, tableRef, knownNames) ==
    LET Found(knownMatch) ==
            IF knownMatch # <<>> THEN PushNew(dependsOn, knownMatch) ELSE dependsOn
    IN Found(FindKnown(knownNames, getMatchName(tableRef.tableName),
                       getMatchName(tableRef.name)))

\* [...new Set(dependsOn)]: the first occurrence of each element, in order
Dedup(list) ==
    LET RECURSIVE go(_, _)
        go(k, acc) == IF k > Len(list) THEN acc ELSE go(k + 1, PushNew(acc, list[k]))
    IN go(1, <<>>)

\* an alias that is a keyword is no alias
AliasOf(a) == IF IsKeywordAlias(a) THEN <<>> ELSE a

\* alias || raw
AliasOr(alias, raw) == IF alias # <<>> THEN alias ELSE raw

\* the table pushed if new, then its known unit pushed to dependsOn
WithTable(acc, tableRef, knownNames) ==
    [acc EXCEPT !.tables = PushTable(@, tableRef),
                !.dependsOn = PushKnown(@, tableRef, knownNames)]

srcDepsKnown(dependsOn, knownMatch) ==
    IF knownMatch # <<>> THEN PushNew(dependsOn, knownMatch) ELSE dependsOn

srcDepsKey(dependsOn, srcMatch, knownNames) ==
    srcDepsKnown(dependsOn, FindKnown(knownNames, srcMatch, srcMatch))

\* the sources of a simple UNION that are known units
RECURSIVE srcDeps(_, _, _, _)
srcDeps(sources, k, dependsOn, knownNames) ==
    IF k > Len(sources) THEN dependsOn
    ELSE srcDeps(sources, k + 1,
                 srcDepsKey(dependsOn, getMatchName(sources[k]), knownNames), knownNames)

\* the FROM table of one branch of a simple UNION
BranchTable(acc, fromMatch, knownNames) ==
    IF ~fromMatch.matched \/ StartsWith(fromMatch.raw, PlaceholderPrefix) THEN acc
    ELSE WithTable(acc,
                   createTableRef(fromMatch.raw, AliasOf(fromMatch.alias), knownNames),
                   knownNames)

RECURSIVE BranchTables(_, _, _, _)
BranchTables(unionParts, k, acc, knownNames) ==
    IF k > Len(unionParts) THEN acc
    ELSE BranchTables(unionParts, k + 1,
                      BranchTable(acc, FromMatch(unionParts[k]), knownNames), knownNames)

\* the FROM table of a query that is not a UNION
FromTable(acc, fromMatch, knownNames) ==
    IF fromMatch.matched /\ ~StartsWith(fromMatch.raw, PlaceholderPrefix)
    THEN WithTable(acc,
                   createTableRef(fromMatch.raw,
                                  AliasOr(AliasOf(fromMatch.alias), fromMatch.raw),
                                  knownNames),
                   knownNames)
    ELSE acc

JoinedTable(acc, m, tableRef, knownNames) ==
    [tables |-> PushTable(acc.tables, tableRef),
     joins |-> Append(acc.joins,
                      [type |-> m.joinType, table |-> tableRef,
                       condition |-> m.condition]),
     dependsOn |-> PushKnown(acc.dependsOn, tableRef, knownNames)]

\* one match of the joinRegex loop
JoinTable(acc, m, knownNames) ==
    IF StartsWith(m.raw, PlaceholderPrefix) THEN acc
    ELSE JoinedTable(acc, m,
                     createTableRef(m.raw, AliasOr(AliasOf(m.alias), m.raw), knownNames),
                     knownNames)

RECURSIVE JoinTables(_, _, _, _)
JoinTables(joinMatches, k, acc, knownNames) ==
    IF k > Len(joinMatches) THEN acc
    ELSE JoinTables(joinMatches, k + 1, JoinTable(acc, joinMatches[k], knownNames),
                    knownNames)

Filters(whereMatch, havingMatch) ==
    [k \in 1..Len(whereMatch) |-> [clause |-> "WHERE", condition |-> whereMatch[k]]]
    \o [k \in 1..Len(havingMatch) |->
           [clause |-> "HAVING", condition |-> havingMatch[k]]]

\* a variant of the ParsedQuery of parseFlatSelect that has no orderBy
FlatUnitNoOrderBy(normalized, id, name, isCTE, isSubQuery, unionInfo, found) ==
    [id |-> id, name |-> name, isCTE |-> isCTE, isSubQuery |-> isSubQuery,
     isTempTable |-> FALSE,
     tables |-> found.tables,
     fields |-> SelectFields(normalized),
     joins |-> found.joins,
     filters |-> <<>>,
     groupBy |-> <<>>,
     dependsOn |-> Dedup(found.dependsOn),
     unionInfo |-> unionInfo]

\* the ParsedQuery that parseFlatSelect returns
FlatUnit(normalized, id, name, isCTE, isSubQuery, unionInfo, found) ==
    [id |-> id, name |-> name, isCTE |-> isCTE, isSubQuery |-> isSubQuery,
     isTempTable |-> FALSE,
     tables |-> found.tables,
     fields |-> SelectFields(normalized),
     joins |-> found.joins,
     filters |-> Filters(ClauseMatch(normalized, kwWhere,
                                     {kwGroup, kwHaving, kwOrder, kwLimit, kwUnion}),
                         ClauseMatch(normalized, kwHaving,
                                     {kwOrder, kwLimit, kwUnion})),
     groupBy |-> ByListMatch(normalized, kwGroup,
                             {kwHaving, kwOrder, kwLimit, kwUnion}),
     orderBy |-> ByListMatch(normalized, kwOrder, {kwLimit, kwUnion}),
     dependsOn |-> Dedup(found.dependsOn),
     unionInfo |-> unionInfo]

\* tables, joins and dependsOn before the FROM tables are looked at
FlatStart(unionInfo, isComplex, knownNames) ==
    [tables |-> <<>>, joins |-> <<>>,
     dependsOn |-> IF unionInfo # NoUnion /\ ~isComplex
                   THEN srcDeps(unionInfo.sources, 1, <<>>, knownNames) ELSE <<>>]

\* the FROM tables, then the JOINs
FlatTables(normalized, unionParts, isComplex, start, knownNames) ==
    JoinTables(JoinMatches(normalized), 1,
               IF Len(unionParts) > 1
               THEN (IF ~isComplex THEN BranchTables(unionParts, 1, start, knownNames)
                     ELSE start)
               ELSE FromTable(start, FromMatch(normalized), knownNames),
               knownNames)

FlatParts(normalized, id, name, isCTE, isSubQuery, knownNames, unionInfo, unionParts,
          isComplex) ==
    FlatUnit(normalized, id, name, isCTE, isSubQuery, unionInfo,
             FlatTables(normalized, unionParts, isComplex,
                        FlatStart(unionInfo, isComplex, knownNames), knownNames))

FlatUnion(normalized, id, name, isCTE, isSubQuery, knownNames, unionInfo, unionParts) ==
    FlatParts(normalized, id, name, isCTE, isSubQuery, knownNames, unionInfo, unionParts,
              IsComplex(unionParts))

FlatNormalized(normalized, id, name, isCTE, isSubQuery, knownNames) ==
    FlatUnion(normalized, id, name, isCTE, isSubQuery, knownNames,
              detectUnionAll(normalized, knownNames), splitByUnion(normalized).parts)

parseFlatSelect(text, id, name, isCTE, isSubQuery, knownNames) ==
    FlatNormalized(normalizeWhitespace(text), id, name, isCTE, isSubQuery, knownNames)

----------------------------------------------------------------------------
(* processSQL *)

sSubquery == <<"s", "u", "b", "q", "u", "e", "r", "y", "_">>
sUnion == <<"_", "u", "n", "i", "o", "n", "_">>

\* `subquery_${n}`
SubqueryId(n) == sSubquery \o Digits(n)

\* `${id}_union_${i}`
BranchId(id, i) == id \o sUnion \o Digits(i)

\* the display names of a subquery and of a branch; the localized label is one element
SubqueryName(alias, count) ==
    IF alias # <<>> THEN <<"subquery", " ", "(">> \o alias \o <<")">>
    ELSE <<"subquery", "_">> \o Digits(count)

BranchName(name, i) == name \o <<" ", "(", "branch", " ">> \o Digits(i + 1) \o <<")">>

\* processedBodies.get(bodyKey), <<>> standing for undefined
BodiesGet(bodies, bodyKey) ==
    LET Hit(k) == IF k = -1 THEN <<>> ELSE bodies[k].id
    IN Hit(Least({k \in 1..Len(bodies) : bodies[k].key = bodyKey}))

\* processedBodies.set(bodyKey, subId)
BodiesSet(bodies, bodyKey, subId) ==
    IF \E k \in 1..Len(bodies) : bodies[k].key = bodyKey
    THEN [k \in 1..Len(bodies) |->
            IF bodies[k].key = bodyKey THEN [key |-> bodyKey, id |-> subId] ELSE bodies[k]]
    ELSE Append(bodies, [key |-> bodyKey, id |-> subId])

\* array.splice(idx, 1) when idx, the result of findIndex, is not -1
RemoveAt(list, idx) ==
    IF idx = -1 THEN list
    ELSE SubSeq(list, 1, idx - 1) \o SubSeq(list, idx + 1, Len(list))

\* array.filter(d => d !== x)
Without(list, x) == Pick(list, {k \in 1..Len(list) : list[k] # x})

\* the fix-up of one placeholder (lines 1263-1310)
FixUp(flatQuery, info, subId, knownNames) ==
    LET Fixed(tables1, joins1, deps1, subQueryRef) ==
            IF info.context = "join" /\ info.joinType # <<>> /\ info.joinCondition # <<>>
            THEN [flatQuery EXCEPT !.tables = PushTable(tables1, subQueryRef),
                                   !.joins = Append(joins1, [type |-> info.joinType,
                                                             table |-> subQueryRef,
                                                             condition |-> info.joinCondition]),
                                   !.dependsOn = deps1]
            ELSE IF info.context = "from"
            THEN [flatQuery EXCEPT !.tables = PushTable(tables1, subQueryRef),
                                   !.joins = joins1, !.dependsOn = deps1]
            ELSE [flatQuery EXCEPT !.tables = tables1, !.joins = joins1,
                                   !.dependsOn = deps1]
    IN Fixed(RemoveAt(flatQuery.tables,
                      Least({k \in 1..Len(flatQuery.tables) :
                               \/ flatQuery.tables[k].name = info.placeholder
                               \/ flatQuery.tables[k].tableName = info.placeholder})),
             RemoveAt(flatQuery.joins,
                      Least({k \in 1..Len(flatQuery.joins) :
                               \/ flatQuery.joins[k].table.name = info.placeholder
                               \/ flatQuery.joins[k].table.tableName = info.placeholder})),
             PushNew(Without(flatQuery.dependsOn, toLowerCase(info.placeholder)), subId),
             createTableRef(subId, IF info.alias # <<>> THEN info.alias ELSE subId,
                            knownNames))

\* st = [collector, count, bodies]: subQueryCollector, subQueryCounter.count and
\* processedBodies, which every call shares.  The result is [unit, st].
RECURSIVE processSQL(_, _, _, _, _, _, _)

\* a variant of the collection in which the unit goes in front of the collector
SubCollectedInFront(knownNames, st, bodyKey, existingId, subId, r) ==
    [knownNames |-> PushNew(knownNames, subId),
     st |-> IF existingId # <<>> THEN st
            ELSE [collector |-> <<r.unit>> \o r.st.collector,
                  count |-> r.st.count,
                  bodies |-> BodiesSet(r.st.bodies, bodyKey, subId)]]

\* the end of an iteration of the loop over the extracted subqueries: the unit r
\* of a body that was not cached is collected, and the id is a known name
SubCollected(knownNames, st, bodyKey, existingId, subId, r) ==
    [knownNames |-> PushNew(knownNames, subId),
     st |-> IF existingId # <<>> THEN st
            ELSE [collector |-> Append(r.st.collector, r.unit),
                  count |-> r.st.count,
                  bodies |-> BodiesSet(r.st.bodies, bodyKey, subId)]]

SubProcessed(info, knownNames, st, bodyKey, existingId, subId) ==
    SubCollected(knownNames, st, bodyKey, existingId, subId,
                 processSQL(info.body, subId, SubqueryName(info.alias, st.count + 1),
                            FALSE, TRUE, knownNames, [st EXCEPT !.count = @ + 1]))

SubCached(info, knownNames, st, bodyKey, existingId) ==
    SubProcessed(info, knownNames, st, bodyKey, existingId,
                 IF existingId # <<>> THEN existingId ELSE SubqueryId(st.count))

SubKeyed(info, knownNames, st, bodyKey) ==
    SubCached(info, knownNames, st, bodyKey, BodiesGet(st.bodies, bodyKey))

\* the loop over the extracted subqueries (lines 1177-1200); acc = [knownNames, st]
RECURSIVE subLoop(_, _, _)
subLoop(subs, k, acc) ==
    IF k > Len(subs) THEN acc
    ELSE subLoop(subs, k + 1,
                 SubKeyed(subs[k], acc.knownNames, acc.st,
                          normalizeWhitespace(subs[k].body)))

BranchPushed(r) == [r.st EXCEPT !.collector = Append(@, r.unit)]

\* one subquery unit per branch of a complex UNION (lines 1223-1242)
RECURSIVE branchLoop(_, _, _, _, _, _)
branchLoop(unionParts, id, name, knownNames, i, st) ==
    IF i >= Len(unionParts) THEN st
    ELSE branchLoop(unionParts, id, name, knownNames, i + 1,
                    BranchPushed(processSQL(unionParts[i + 1], BranchId(id, i),
                                            BranchName(name, i), FALSE, TRUE,
                                            knownNames, st)))

\* the fix-up loop (lines 1263-1310)
RECURSIVE fixLoop(_, _, _, _, _)
fixLoop(subs, bodies, knownNames, k, q) ==
    IF k > Len(subs) THEN q
    ELSE fixLoop(subs, bodies, knownNames, k + 1,
                 FixUp(q, subs[k], BodiesGet(bodies, normalizeWhitespace(subs[k].body)),
                       knownNames))

\* the unit of a complex UNION (lines 1244-1258)
UnionUnit(id, name, isCTE, isSubQuery, unionType, unionSourceIds) ==
    [id |-> id, name |-> name, isCTE |-> isCTE,
     isSubQuery |-> isSubQuery, isTempTable |-> FALSE,
     tables |-> <<>>, fields |-> <<>>, joins |-> <<>>, filters |-> <<>>,
     groupBy |-> <<>>, orderBy |-> <<>>,
     dependsOn |-> unionSourceIds,
     unionInfo |-> [type |-> unionType, sources |-> unionSourceIds]]

\* after the subqueries are processed: a complex UNION, or a flat SELECT with its
\* placeholders fixed up
processParsed(id, name, isCTE, isSubQuery, rs, after, split) ==
    IF Len(split.parts) > 1 /\ IsComplex(split.parts) /\ split.unionType # <<>>
    THEN [unit |-> UnionUnit(id, name, isCTE, isSubQuery, split.unionType,
                             [k \in 1..Len(split.parts) |-> BranchId(id, k - 1)]),
          st |-> branchLoop(split.parts, id, name, after.knownNames, 0, after.st)]
    ELSE [unit |-> fixLoop(rs.subs, after.st.bodies, after.knownNames, 1,
                           parseFlatSelect(rs.replaced, id, name, isCTE, isSubQuery,
                                           after.knownNames)),
          st |-> after.st]

processReplaced(normalized, id, name, isCTE, isSubQuery, knownNames, st, rs) ==
    processParsed(id, name, isCTE, isSubQuery, rs,
                  subLoop(rs.subs, 1, [knownNames |-> knownNames, st |-> st]),
                  splitByUnion(normalized))

processNormalized(normalized, id, name, isCTE, isSubQuery, knownNames, st) ==
    processReplaced(normalized, id, name, isCTE, isSubQuery, knownNames, st,
                    replaceSubqueries(normalized))

processSQL(text, id, name, isCTE, isSubQuery, knownNames, st) ==
    processNormalized(normalizeWhitespace(text), id, name, isCTE, isSubQuery,
                      knownNames, st)

EmptyCollector == [collector |-> <<>>, count |-> 0, bodies |-> <<>>]

----------------------------------------------------------------------------
(* parseSQL, one loop iteration at a time *)

sTemp == <<"t", "e", "m", "p", "_">>
sTempNode == <<"t", "e", "m", "p", "_", "n", "o", "d", "e", "_">>
sCte == <<"c", "t", "e", "_">>
sMain == <<"m", "a", "i", "n">>
sDual == <<"d", "u", "a", "l">>
MainName == <<"final query">>

\* lines 1380-1390: [tempTables, rawCTEs, remainingSQL]
Preprocessed(text) ==
    LET Ctes(temp, cte) ==
            [tempTables |-> temp.tempTables, rawCTEs |-> cte.ctes,
             remainingSQL |-> cte.remainingSQL]
        Temps(temp) == Ctes(temp, extractCTEs(normalizeWhitespace(temp.remainingSQL)))
    IN Temps(preprocessTempTables(removeComments(text)))

tempTableNames(p) == [i \in 1..Len(p.tempTables) |-> toLowerCase(p.tempTables[i].name)]

cteNames(p) == [i \in 1..Len(p.rawCTEs) |-> toLowerCase(p.rawCTEs[i].name)]

\* parsed.isTempTable = true; parsed.id = `temp_node_${t.name}`
TempRenamed(t, r) ==
    [unit |-> [r.unit EXCEPT !.isTempTable = TRUE, !.id = sTempNode \o t.name],
     st |-> r.st]

TempParsed(t, knownNames, st) ==
    TempRenamed(t, processSQL(t.body, sTemp \o t.name, t.name, FALSE, FALSE,
                              knownNames, st))

\* a variant of TempUnit in which a temp table sees every temp table
TempUnitSeesAll(p, i, st) == TempParsed(p.tempTables[i], tempTableNames(p), st)

\* the body of the temp-table loop for its i-th table, 1-based (lines 1399-1409)
TempUnit(p, i, st) ==
    TempParsed(p.tempTables[i], SubSeq(tempTableNames(p), 1, i - 1), st)

\* the body of the CTE loop for its i-th CTE, 1-based; `cte_${i}` counts from 0
\* (lines 1414-1420)
CteUnit(p, i, st) ==
    processSQL(p.rawCTEs[i].body, sCte \o Digits(i - 1), p.rawCTEs[i].name, TRUE, FALSE,
               tempTableNames(p) \o SubSeq(cteNames(p), 1, i - 1), st)

\* lines 1424-1431
MainUnit(p, st) ==
    LET names == tempTableNames(p)
        allKnown == names \o cteNames(p)
                    \o [k \in 1..Len(st.collector) |-> toLowerCase(st.collector[k].id)]
        fallback == IF Len(names) > 0 THEN names[Len(names)] ELSE sDual
        finalSQL == IF trim(p.remainingSQL) # <<>> THEN p.remainingSQL
                    ELSE <<<<"S", "E", "L", "E", "C", "T">>, SP, STAR, SP, txFrom, SP, fallback>>
    IN processSQL(finalSQL, sMain, MainName, FALSE, FALSE, allKnown, st)

\* a variant of the result in which allQueries has mainQuery before subQueries
ParsedSQLMainFirst(ctes, mainQuery, subQueries) ==
    [ctes |-> ctes, mainQuery |-> mainQuery, subQueries |-> subQueries,
     allQueries |-> ctes \o <<mainQuery>> \o subQueries]

\* lines 1433-1438
ParsedSQL(ctes, mainQuery, subQueries) ==
    [ctes |-> ctes, mainQuery |-> mainQuery, subQueries |-> subQueries,
     allQueries |-> ctes \o subQueries \o <<mainQuery>>]

----------------------------------------------------------------------------
(* The graph assembler: buildFlowElements *)

\* the assembler's own copy of getMatchName (lines 31-38)
flowGetMatchName(name) ==
    LET Unwrap(lowered) ==
            IF StartsWith(lowered, <<"$", "{">>) /\ EndsWith(lowered, <<"}">>)
            THEN SubSeq(lowered, 3, Len(lowered) - 1)
            ELSE lowered
    IN Unwrap(toLowerCase(name))

\* a Map kept as a sequence of [key, value] in insertion order
MapSet(map, key, value) ==
    IF \E k \in 1..Len(map) : map[k].key = key
    THEN [k \in 1..Len(map) |->
            IF map[k].key = key THEN [key |-> key, value |-> value] ELSE map[k]]
    ELSE Append(map, [key |-> key, value |-> value])

\* map.get(key), <<>> standing for undefined
MapGet(map, key) ==
    LET Hit(k) == IF k = -1 THEN <<>> ELSE map[k].value
    IN Hit(Least({k \in 1..Len(map) : map[k].key = key}))

\* the loops "for (const [key, value] of nodeIdMap.entries())": the value of the
\* first entry whose match name is a or b, <<>> standing for undefined
NodeIdFor(nodeIdMap, a, b) ==
    LET Hit(k) == IF k = -1 THEN <<>> ELSE nodeIdMap[k].value
    IN Hit(Least({k \in 1..Len(nodeIdMap) : flowGetMatchName(nodeIdMap[k].key) \in {a, b}}))

\* `${sourceId}->${targetId}`
EdgeKey(sourceId, targetId) == sourceId \o <<"-", ">">> \o targetId

sSource == <<"s", "o", "u", "r", "c", "e", "_">>
sOutput == <<"o", "u", "t", "p", "u", "t">>
sJoinNode == <<"j", "o", "i", "n", "_">>
sEdge == <<"e", "_">>
sEdgeUnion == <<"e", "_", "u", "n", "i", "o", "n", "_">>

\* `source_${tableName.toLowerCase().replace(/\./g, '_').replace(/[^a-z0-9_]/g, '')}`
SourceId(tableName) ==
    LET Kept(under) ==
            Pick(under, {k \in 1..Len(under) :
                           under[k] \in LowerChars \cup DigitChars \cup {"_"}})
        Under(lowered) ==
            Kept([k \in 1..Len(lowered) |-> IF lowered[k] = "." THEN "_" ELSE lowered[k]])
    IN sSource \o Under(toLowerCase(tableName))

\* ensureSourceNode: the graph with the source node of a physical table in it
ensureSourceNode(g, tableName, alias) ==
    LET Node(sourceId, dot) ==
            IF \E k \in 1..Len(g.nodes) : g.nodes[k].id = sourceId THEN g
            ELSE [g EXCEPT
                    !.nodes = Append(@, [id |-> sourceId, type |-> "queryNode",
                                         label |-> IF dot # -1 /\ dot # 1
                                                   THEN SubSeq(tableName, 1, dot - 1)
                                                   ELSE tableName,
                                         nodeType |-> "source"])]
    IN Node(SourceId(tableName), DotIndex(tableName))

QueryNode(sq, nodeType) ==
    [id |-> sq.id, type |-> "queryNode", label |-> sq.name, nodeType |-> nodeType]

\* lines 167-194: [unionDeps, unionPhysicalSources]
UnionMaps(parsedSQL, nodeIdMap) ==
    LET \* the node the j-th source of a union resolves to, <<>> when it is physical
        found(src, j) ==
            NodeIdFor(nodeIdMap, flowGetMatchName(src[j]), flowGetMatchName(src[j]))
        Deps(sq) ==
            {EdgeKey(found(sq.unionInfo.sources, j), sq.id) :
                j \in {i \in 1..Len(sq.unionInfo.sources) :
                          found(sq.unionInfo.sources, i) # <<>>}}
        Physical(sq) ==
            Pick(sq.unionInfo.sources,
                 {j \in 1..Len(sq.unionInfo.sources) : found(sq.unionInfo.sources, j) = <<>>})
        With(acc, sq, physicalSources) ==
            [unionDeps |-> acc.unionDeps \cup Deps(sq),
             unionPhysicalSources |->
                IF Len(physicalSources) > 0
                THEN MapSet(acc.unionPhysicalSources, sq.id, physicalSources)
                ELSE acc.unionPhysicalSources]
        RECURSIVE units(_, _)
        units(k, acc) ==
            IF k > Len(parsedSQL.allQueries) THEN acc
            ELSE IF parsedSQL.allQueries[k].unionInfo = NoUnion THEN units(k + 1, acc)
            ELSE units(k + 1, With(acc, parsedSQL.allQueries[k],
                                   Physical(parsedSQL.allQueries[k])))
    IN units(1, [unionDeps |-> {}, unionPhysicalSources |-> <<>>])

\* lines 80-197: the nodes of the units and of the output, the lookup maps, no edge
InitialGraph(parsedSQL) ==
    LET RECURSIVE cteMap(_, _)
        cteMap(k, map) ==
            IF k > Len(parsedSQL.ctes) THEN map
            ELSE cteMap(k + 1, MapSet(MapSet(map, toLowerCase(parsedSQL.ctes[k].name),
                                             parsedSQL.ctes[k].id),
                                      parsedSQL.ctes[k].id, parsedSQL.ctes[k].id))
        RECURSIVE sqMap(_, _)
        sqMap(k, map) ==
            IF k > Len(parsedSQL.subQueries) THEN map
            ELSE sqMap(k + 1, MapSet(map, parsedSQL.subQueries[k].id,
                                     parsedSQL.subQueries[k].id))
        Graph(nodeIdMap, um) ==
            [nodes |-> [k \in 1..Len(parsedSQL.ctes) |->
                           QueryNode(parsedSQL.ctes[k],
                                     IF parsedSQL.ctes[k].isTempTable THEN "temp" ELSE "cte")]
                       \o [k \in 1..Len(parsedSQL.subQueries) |->
                           QueryNode(parsedSQL.subQueries[k], "subquery")]
                       \o <<QueryNode(parsedSQL.mainQuery, "main"),
                            [id |-> sOutput, type |-> "queryNode", label |-> <<"output">>,
                             nodeType |-> "output"]>>,
             edges |-> <<>>,
             nodeIdMap |-> nodeIdMap,
             unionDeps |-> um.unionDeps,
             unionPhysicalSources |-> um.unionPhysicalSources,
             addedEdges |-> {},
             joinNodeCounter |-> 0,
             linked |-> 0]
        Maps(nodeIdMap) == Graph(nodeIdMap, UnionMaps(parsedSQL, nodeIdMap))
    IN Maps(sqMap(1, cteMap(1, <<>>)))

\* a variant of addEdge that does not consult addedEdges
addEdgeUnguarded(g, sourceId, targetId, isUnion, unionLabel) ==
    [g EXCEPT
       !.addedEdges = @ \cup {EdgeKey(sourceId, targetId)},
       !.edges = Append(@, [id |-> sEdge \o sourceId \o <<"_">> \o targetId,
                            source |-> sourceId, target |-> targetId,
                            isUnion |-> isUnion, label |-> unionLabel])]

\* addEdge (lines 200-229); unionLabel = <<>> stands for a missing label
addEdge(g, sourceId, targetId, isUnion, unionLabel) ==
    LET edgeKey == EdgeKey(sourceId, targetId)
    IN IF edgeKey \in g.addedEdges THEN g
       ELSE [g EXCEPT
               !.addedEdges = @ \cup {edgeKey},
               !.edges = Append(@,
                   IF isUnion
                   THEN [id |-> sEdgeUnion \o sourceId \o <<"_">> \o targetId,
                         source |-> sourceId, target |-> targetId, isUnion |-> TRUE,
                         label |-> IF unionLabel # <<>> THEN unionLabel ELSE TypeUnionAll]
                   ELSE [id |-> sEdge \o sourceId \o <<"_">> \o targetId,
                         source |-> sourceId, target |-> targetId, isUnion |-> FALSE,
                         label |-> <<>>])]

\* a variant of the join loop that pushes no edge
JoinEdgeNone(g, sourceId, targetId) == g

\* the three guarded pushes written inline in the join loop (lines 311-356)
JoinEdge(g, sourceId, targetId) ==
    LET ek == EdgeKey(sourceId, targetId)
    IN IF ek \in g.addedEdges THEN g
       ELSE [g EXCEPT
               !.addedEdges = @ \cup {ek},
               !.edges = Append(@, [id |-> sEdge \o sourceId \o <<"_">> \o targetId,
                                    source |-> sourceId, target |-> targetId,
                                    isUnion |-> FALSE, label |-> <<>>])]

\* a variant of the assembler in which no dependency counts as handled
HandledNever(handledDeps, a, b) == FALSE

\* handledDeps has an element whose match name is a or b
Handled(handledDeps, a, b) == \E h \in handledDeps : flowGetMatchName(h) \in {a, b}

\* the node a table reference resolves to, creating the source node of a physical
\* table: [g, id]
ResolveOrSource(g, table) ==
    LET Resolved(known) ==
            IF known # <<>> THEN [g |-> g, id |-> known]
            ELSE [g |-> ensureSourceNode(g, table.name, table.alias),
                  id |-> SourceId(table.name)]
    IN Resolved(NodeIdFor(g.nodeIdMap, flowGetMatchName(table.name),
                          flowGetMatchName(table.tableName)))

\* the edge from one table of an orphan unit
Rescued(sq, res) == addEdge(res.g, res.id, sq.id, FALSE, <<>>)

\* lines 465-489: incomingEdges is empty, so no table is "already connected"
RECURSIVE rescueLoop(_, _, _)
rescueLoop(sq, k, g) ==
    IF k > Len(sq.tables) THEN g
    ELSE rescueLoop(sq, k + 1, Rescued(sq, ResolveOrSource(g, sq.tables[k])))

\* a variant of the assembler without the orphan rescue
RescueNone(sq, g) == g

\* lines 455-490: a unit without an incoming edge takes one from each of its tables
Rescue(sq, g) ==
    IF /\ ~(\E k \in 1..Len(g.edges) : g.edges[k].target = sq.id)
       /\ (sq.isCTE \/ sq.isTempTable \/ sq.isSubQuery)
    THEN rescueLoop(sq, 1, g)
    ELSE g

\* the body of the loop over allQueries for one unit (lines 232-491)
LinkUnit(g0, sq) ==
    LET joinTableNames == {toLowerCase(sq.joins[k].table.name) : k \in 1..Len(sq.joins)}
        isJoin(tableLower) == \E j \in joinTableNames : flowGetMatchName(j) = tableLower
        \* lines 362-370: the first table that is not a join table
        FromHandled(fromTableNodeId, plainIdx) ==
            IF fromTableNodeId # <<>> /\ plainIdx # -1
            THEN {toLowerCase(sq.tables[plainIdx].name),
                  toLowerCase(sq.tables[plainIdx].tableName)}
            ELSE {}
        \* lines 278-371: one join node per join
        WithJoinNode(g, join, joinId) ==
            [g EXCEPT !.joinNodeCounter = @ + 1,
                      !.nodes = Append(@, [id |-> joinId, type |-> "joinNode",
                                           label |-> join.type, nodeType |-> "join"])]
        FromEdge(g, fromTableNodeId, joinId) ==
            IF fromTableNodeId # <<>> THEN JoinEdge(g, fromTableNodeId, joinId) ELSE g
        RECURSIVE joinLoop(_, _, _, _)
        joinLoop(fromTableNodeId, fromHandled, k, acc) ==
            LET Linked(join, res, joinId) ==
                    joinLoop(fromTableNodeId, fromHandled, k + 1,
                        [g |-> JoinEdge(JoinEdge(FromEdge(WithJoinNode(res.g, join, joinId),
                                                          fromTableNodeId, joinId),
                                                 res.id, joinId),
                                        joinId, sq.id),
                         handledDeps |-> acc.handledDeps
                                         \cup {flowGetMatchName(join.table.name),
                                               flowGetMatchName(join.table.tableName)}
                                         \cup fromHandled])
                Resolved(join, res) ==
                    Linked(join, res, sJoinNode \o Digits(acc.g.joinNodeCounter))
            IN IF k > Len(sq.joins) THEN acc
               ELSE Resolved(sq.joins[k], ResolveOrSource(acc.g, sq.joins[k].table))
        \* lines 374-384: the physical tables of a union
        RECURSIVE unionLoop(_, _, _)
        unionLoop(physicalUnionSources, k, acc) ==
            IF k > Len(physicalUnionSources) THEN acc
            ELSE unionLoop(physicalUnionSources, k + 1,
                    [g |-> addEdge(ensureSourceNode(acc.g, physicalUnionSources[k], <<>>),
                                   SourceId(physicalUnionSources[k]), sq.id, TRUE,
                                   sq.unionInfo.type),
                     handledDeps |-> acc.handledDeps
                                     \cup {toLowerCase(physicalUnionSources[k])}])
        \* lines 387-414: dependsOn
        RECURSIVE depLoop(_, _)
        depLoop(k, acc) ==
            LET Dep(dep, depMatch, depNodeId) ==
                    IF \/ Handled(acc.handledDeps, depMatch, depMatch)
                       \/ depNodeId = <<>>
                       \/ depNodeId = sq.id
                       \/ EdgeKey(depNodeId, sq.id) \in acc.g.addedEdges
                    THEN depLoop(k + 1, acc)
                    ELSE depLoop(k + 1,
                           [g |-> addEdge(acc.g, depNodeId, sq.id,
                                          EdgeKey(depNodeId, sq.id) \in acc.g.unionDeps,
                                          sq.unionInfo.type),
                            handledDeps |-> acc.handledDeps \cup {dep}])
                Match(dep, depMatch) ==
                    Dep(dep, depMatch, NodeIdFor(acc.g.nodeIdMap, depMatch, depMatch))
            IN IF k > Len(sq.dependsOn) THEN acc
               ELSE Match(sq.dependsOn[k], flowGetMatchName(sq.dependsOn[k]))
        \* lines 417-451: the tables not handled yet
        RECURSIVE tableLoop(_, _)
        tableLoop(k, acc) ==
            LET Table(table, tableMatch, tableNameMatch, depNodeId) ==
                    IF Handled(acc.handledDeps, tableMatch, tableNameMatch)
                    THEN tableLoop(k + 1, acc)
                    ELSE IF depNodeId # <<>>
                    THEN tableLoop(k + 1,
                           [g |-> IF depNodeId # sq.id
                                     /\ EdgeKey(depNodeId, sq.id) \notin acc.g.addedEdges
                                  THEN addEdge(acc.g, depNodeId, sq.id, FALSE, <<>>)
                                  ELSE acc.g,
                            handledDeps |-> acc.handledDeps \cup {table.name}])
                    ELSE tableLoop(k + 1,
                           [g |-> addEdge(ensureSourceNode(acc.g, table.name, table.alias),
                                          SourceId(table.name), sq.id, FALSE, <<>>),
                            handledDeps |-> acc.handledDeps \cup {table.name}])
                Match(table, tableMatch, tableNameMatch) ==
                    Table(table, tableMatch, tableNameMatch,
                          NodeIdFor(acc.g.nodeIdMap, tableMatch, tableNameMatch))
            IN IF k > Len(sq.tables) THEN acc
               ELSE Match(sq.tables[k], flowGetMatchName(sq.tables[k].name),
                          flowGetMatchName(sq.tables[k].tableName))
        Deps(joined) ==
            Rescue(sq, tableLoop(1, depLoop(1,
                unionLoop(MapGet(joined.g.unionPhysicalSources, sq.id), 1, joined))).g)
        Joins(from) ==
            Deps(joinLoop(from.id,
                          FromHandled(from.id,
                                      Least({k \in 1..Len(sq.tables) :
                                               toLowerCase(sq.tables[k].name)
                                                   \notin joinTableNames})),
                          1, [g |-> from.g, handledDeps |-> {}]))
        \* lines 243-274: the FROM table
        From(fromIdx) ==
            Joins(IF fromIdx # -1 THEN ResolveOrSource(g0, sq.tables[fromIdx])
                  ELSE [g |-> g0, id |-> <<>>])
    IN From(Least({k \in 1..Len(sq.tables) :
                     ~isJoin(flowGetMatchName(sq.tables[k].name))}))

\* a variant of the assembler without the edge to the output node
ConnectOutputNone(g, mainId) == g

\* lines 493-499
ConnectOutput(g, mainId) == addEdge(g, mainId, sOutput, FALSE, <<>>)

----------------------------------------------------------------------------
(* Input scripts *)

MaxTemps == 2
MaxCtes == 2
MaxNest == 2
MaxNameLen == 3

txSelect == <<"S", "E", "L", "E", "C", "T">>
txWhere == <<"W", "H", "E", "R", "E">>
txUnion == <<"U", "N", "I", "O", "N">>
txAll == <<"A", "L", "L">>
txCreate == <<"c", "r", "e", "a", "t", "e">>
txTable == <<"t", "a", "b", "l", "e">>
txAs == <<"A", "S">>
txWith == <<"W", "I", "T", "H">>
txLeft == <<"L", "E", "F", "T">>

nOrders == <<"o", "r", "d", "e", "r", "s">>
nDim == <<"d", "i", "m", "_", "c">>
nT1 == <<"t", "1">>
nT2 == <<"T", "2">>
nT1Var == <<"$", "{", "t", "1", "}">>
nC == <<"c">>
nD == <<"d">>
nMain == <<"m", "a", "i", "n">>
nX == <<"x">>
nY == <<"y">>
nCond == <<"x", ".", "k", "=", "y", ".", "k">>
nFlag == <<"o", "k">>

\* the lexemes of ws with one space between them
Words(ws) ==
    LET RECURSIVE go(_)
        go(k) == IF k > Len(ws) THEN <<>>
                 ELSE IF k = Len(ws) THEN <<ws[k]>> ELSE <<ws[k], SP>> \o go(k + 1)
    IN go(1)

\* a b
Then(a, b) == IF a = <<>> THEN b ELSE IF b = <<>> THEN a ELSE a \o <<SP>> \o b

\* (body)
Paren(body) == <<LP>> \o body \o <<RP>>

\* SELECT * FROM src
SelectFrom(src) == Words(<<txSelect, STAR, txFrom, src>>)

\* SELECT * FROM (... (SELECT * FROM src) x ...) x, nested depth times
RECURSIVE Nested(_, _)
Nested(src, depth) ==
    IF depth = 0 THEN SelectFrom(src)
    ELSE Words(<<txSelect, STAR, txFrom>>) \o <<SP>> \o Paren(Nested(src, depth - 1))
         \o <<SP, nX>>

\* JOIN (body) alias ON cond
JoinSub(body, alias) == <<txJoin, SP>> \o Paren(body) \o <<SP, alias, SP, txOn, SP, nCond>>

\* the well-formed query shapes over a table src
Shapes(src) ==
    {Nested(src, d) : d \in 0..MaxNest}
    \cup {Then(SelectFrom(src), Words(<<nX, txLeft, txJoin, nDim, nY, txOn, nCond>>)),
          Then(SelectFrom(src), Words(<<txJoin, nDim, txOn, nCond, txWhere, nFlag>>)),
          Then(SelectFrom(src), Then(Words(<<txUnion, txAll>>), SelectFrom(nDim))),
          Then(SelectFrom(src), Then(Words(<<txUnion>>), SelectFrom(src))),
          Then(SelectFrom(src),
               Then(Words(<<txWhere, nFlag, txUnion, txAll>>), Nested(nDim, 1))),
          Then(SelectFrom(nDim), JoinSub(SelectFrom(src), nY)),
          Then(Nested(src, 1), JoinSub(SelectFrom(src), nY)),
          Then(SelectFrom(nDim),
               Then(JoinSub(Nested(src, 1), nY), JoinSub(Nested(src, 1), nX)))}

\* texts on which extraction fails somewhere: an unbalanced parenthesis, a JOIN
\* cut short, an unterminated quote, a subquery JOIN without ON, no text at all
Malformed(src) ==
    {Words(<<txSelect, STAR, txFrom>>) \o <<SP, LP>> \o SelectFrom(src),
     Then(SelectFrom(src), <<txJoin>>),
     Then(SelectFrom(src), <<txJoin, SP, LP>>),
     Words(<<txSelect, STAR, txFrom>>) \o <<SP, SQUOTE>> \o <<src, SEMI, nX>>,
     Then(SelectFrom(nDim), <<txJoin, SP>> \o Paren(SelectFrom(src))),
     SelectFrom(src) \o <<RP>>,
     <<SP>>,
     <<>>}

\* create table name AS body;
TempStmt(name, body) ==
    Words(<<txCreate, txTable, name, txAs>>) \o <<SP>> \o body \o <<SEMI, NL>>

\* name AS (body)
CteDecl(name, body) == <<name, SP, txAs, SP>> \o Paren(body)

\* WITH decl, decl ... main
WithList(decls, main) ==
    LET RECURSIVE go(_)
        go(k) == IF k > Len(decls) THEN <<>>
                 ELSE IF k = Len(decls) THEN decls[k]
                 ELSE decls[k] \o <<COMMA, SP>> \o go(k + 1)
    IN IF Len(decls) = 0 THEN main ELSE Then(<<txWith, SP>> \o go(1), main)

\* the statements of a sequence, one after the other
Statements(stmts) ==
    LET RECURSIVE go(_)
        go(k) == IF k > Len(stmts) THEN <<>> ELSE stmts[k] \o go(k + 1)
    IN go(1)

SeqsUpTo(S, n) == UNION {[1..k -> S] : k \in 0..n}

TempNames == {nT1, nT2, nT1Var}

TempStmts ==
    {TempStmt(name, body) :
        name \in TempNames,
        body \in {SelectFrom(nOrders), SelectFrom(nT1), Nested(nOrders, 1)}}

CteDecls ==
    {CteDecl(name, body) :
        name \in {nC, nMain},
        body \in {SelectFrom(nOrders), SelectFrom(nC), Nested(nOrders, 1)}}

\* temp tables only, then nothing or a query over one of them
TempScripts ==
    {Statements(ts) \o main :
        ts \in SeqsUpTo(TempStmts, MaxTemps),
        main \in {<<>>, SelectFrom(nT1)}}

\* a WITH list, then a query over one of its names or over a subquery
CteScripts ==
    {WithList(ds, main) :
        ds \in SeqsUpTo(CteDecls, MaxCtes) \ {<<>>},
        main \in {SelectFrom(nC), SelectFrom(nMain), Nested(nOrders, 1)}}

\* a single query of every shape, well formed or not
QueryTexts == Shapes(nOrders) \cup Malformed(nOrders)

\* a temp table, a CTE of every shape over it, a query over the CTE
MixedScripts ==
    {TempStmt(nT1, SelectFrom(nOrders)) \o WithList(<<CteDecl(nC, body)>>, main) :
        body \in Shapes(nT1) \cup Malformed(nT1),
        main \in {SelectFrom(nC), Nested(nC, 1)}}

\* temp tables whose names look like the ids the parser generates
IdLikeScripts ==
    {TempStmt(<<"n", "o", "d", "e", "_", "x">>,
              Then(SelectFrom(nOrders),
                   Then(Words(<<txWhere, nFlag, txUnion, txAll>>), SelectFrom(nDim))))
     \o TempStmt(<<"x", "_", "u", "n", "i", "o", "n", "_", "0">>, SelectFrom(nOrders))}

Scripts == TempScripts \cup CteScripts \cup QueryTexts \cup MixedScripts \cup IdLikeScripts

----------------------------------------------------------------------------
(* parseSQL followed by buildFlowElements on one script *)

Idle == <<>>

Init ==
    /\ sql \in Scripts
    /\ pc = "start"
    /\ pre = Idle
    /\ ps = [ctes |-> <<>>, st |-> EmptyCollector]
    /\ parsed = Idle
    /\ graph = Idle
    /\ loops = Idle
    /\ keys = Idle

\* where parseSQL goes on once `done` units are in ctes
AfterUnit(p, done) ==
    IF done < Len(p.tempTables) THEN "temps"
    ELSE IF done < Len(p.tempTables) + Len(p.rawCTEs) THEN "ctes"
    ELSE "main"

\* ctes.push(parsed), with the shared collector state the call leaves
Pushed(ctes, r) == [ctes |-> Append(ctes, r.unit), st |-> r.st]

\* lines 1380-1395
Preprocess ==
    /\ pc = "start"
    /\ pre' = Preprocessed(sql)
    /\ pc' = AfterUnit(pre', 0)
    /\ UNCHANGED <<sql, ps, parsed, graph, loops, keys>>

\* one iteration of the temp-table loop (lines 1398-1410)
ParseTemp ==
    /\ pc = "temps"
    /\ ps' = Pushed(ps.ctes, TempUnit(pre, Len(ps.ctes) + 1, ps.st))
    /\ pc' = AfterUnit(pre, Len(ps.ctes) + 1)
    /\ UNCHANGED <<sql, pre, parsed, graph, loops, keys>>

\* one iteration of the CTE loop (lines 1413-1421)
ParseCTE ==
    /\ pc = "ctes"
    /\ ps' = Pushed(ps.ctes, CteUnit(pre, Len(ps.ctes) - Len(pre.tempTables) + 1, ps.st))
    /\ pc' = AfterUnit(pre, Len(ps.ctes) + 1)
    /\ UNCHANGED <<sql, pre, parsed, graph, loops, keys>>

\* the main query and the return of parseSQL (lines 1424-1438)
ParseMain ==
    /\ pc = "main"
    /\ ps' = [ps EXCEPT !.st = MainUnit(pre, ps.st).st]
    /\ parsed' = ParsedSQL(ps.ctes, MainUnit(pre, ps.st).unit, ps'.st.collector)
    /\ pc' = "assemble"
    /\ UNCHANGED <<sql, pre, graph, loops, keys>>

\* buildFlowElements up to its loop over allQueries (lines 80-198)
AddNodes ==
    /\ pc = "assemble"
    /\ graph' = InitialGraph(parsed)
    /\ pc' = "link"
    /\ UNCHANGED <<sql, pre, ps, parsed, loops, keys>>

\* one iteration of the loop over allQueries (lines 232-491)
LinkNextUnit ==
    /\ pc = "link"
    /\ graph' = [LinkUnit(graph, parsed.allQueries[graph.linked + 1])
                    EXCEPT !.linked = @ + 1]
    /\ pc' = IF graph.linked + 1 < Len(parsed.allQueries) THEN "link" ELSE "output"
    /\ UNCHANGED <<sql, pre, ps, parsed, loops, keys>>

\* the edge to the output node and the return (lines 493-515)
LinkOutput ==
    /\ pc = "output"
    /\ graph' = ConnectOutput(graph, parsed.mainQuery.id)
    /\ pc' = "done"
    /\ UNCHANGED <<sql, pre, ps, parsed, loops, keys>>

Next ==
    \/ Preprocess
    \/ ParseTemp
    \/ ParseCTE
    \/ ParseMain
    \/ AddNodes
    \/ LinkNextUnit
    \/ LinkOutput

Spec == Init /\ [][Next]_vars

----------------------------------------------------------------------------
(* getMatchName on one name: the parser's copy and the assembler's copy *)

\* characters of names: a lower-case letter, an upper-case letter, a digit, the
\* underscore, and the three characters of the ${...} wrapper
KeyChars == {"a", "B", "7", "_", "$", "{", "}"}

KeyNames == UNION {[1..n -> KeyChars] : n \in 1..MaxNameLen}

\* String.prototype.toUpperCase
toUpperCase(s) ==
    [i \in 1..Len(s) |->
        IF s[i] \in LowerChars THEN CHOOSE c \in UpperChars : LowerOf[c] = s[i] ELSE s[i]]

\* `${${name}}`, the name wrapped once
Wrapped(name) == <<"$", "{">> \o name \o <<"}">>

\* /^\w+$/.test(name)
IsIdentifier(name) == Len(name) > 0 /\ \A i \in 1..Len(name) : name[i] \in WordChars

InitMatch ==
    /\ keys \in {[name |-> x, step |-> "given"] : x \in KeyNames}
    /\ sql = <<>>
    /\ pc = "match"
    /\ pre = Idle
    /\ ps = [ctes |-> <<>>, st |-> EmptyCollector]
    /\ parsed = Idle
    /\ graph = Idle
    /\ loops = Idle

\* the parser's getMatchName on the name, its upper-case variant and its wrapping
ParserKeys ==
    /\ pc = "match"
    /\ keys.step = "given"
    /\ keys' = [name |-> keys.name, step |-> "parser",
                plain |-> getMatchName(keys.name),
                upper |-> getMatchName(toUpperCase(keys.name)),
                wrapped |-> getMatchName(Wrapped(keys.name))]
    /\ UNCHANGED <<sql, pc, pre, ps, parsed, graph, loops>>

\* the assembler's getMatchName on the same three strings
FlowKeys ==
    /\ pc = "match"
    /\ keys.step = "parser"
    /\ keys' = [keys EXCEPT !.step = "both"]
               @@ [flowPlain |-> flowGetMatchName(keys.name),
                   flowUpper |-> flowGetMatchName(toUpperCase(keys.name)),
                   flowWrapped |-> flowGetMatchName(Wrapped(keys.name))]
    /\ UNCHANGED <<sql, pc, pre, ps, parsed, graph, loops>>

NextMatch == ParserKeys \/ FlowKeys

SpecMatch == InitMatch /\ [][NextMatch]_vars

\* C10: for every identifier x (characters of \w), getMatchName gives one key for x,
\* for x in upper case and for x wrapped once as ${x}; and on every string, identifier
\* or not, the parser's copy and the assembler's copy return the same key.
C10_MatchKeyAgrees ==
    /\ keys.step \in {"parser", "both"} /\ IsIdentifier(keys.name)
         => /\ keys.wrapped = keys.plain
            /\ keys.upper = keys.plain
            /\ keys.plain = toLowerCase(keys.name)
    /\ keys.step = "both"
         => /\ keys.flowPlain = keys.plain
            /\ keys.flowUpper = keys.upper
            /\ keys.flowWrapped = keys.wrapped

\* both copies have run on an identifier that has an upper-case letter
C10_Witness ==
    /\ keys.step = "both"
    /\ keys.name = <<"a", "B", "_">>
    /\ keys.wrapped = <<"a", "b", "_">>
    /\ keys.flowUpper = <<"a", "b", "_">>

----------------------------------------------------------------------------
(* Properties of parseSQL and buildFlowElements under Spec *)

\* parseSQL has returned
ParsedDone == pc \in {"assemble", "link", "output", "done"}

\* buildFlowElements has started
Assembling == pc \in {"link", "output", "done"}

ListFields == {"tables", "fields", "joins", "filters", "groupBy", "orderBy", "dependsOn"}

\* the value is a list (an array), empty or not
IsList(x) == DOMAIN x = 1..Len(x)

ValidUnit(q) == ListFields \subseteq DOMAIN q /\ \A f \in ListFields : IsList(q[f])

ValidParsedSQL(p) ==
    /\ {"ctes", "mainQuery", "subQueries", "allQueries"} \subseteq DOMAIN p
    /\ IsList(p.ctes) /\ IsList(p.subQueries) /\ IsList(p.allQueries)
    /\ ValidUnit(p.mainQuery)

\* C1: on every script, malformed or empty ones included, every step of parseSQL
\* yields a unit whose tables, fields, joins, filters, groupBy, orderBy and dependsOn
\* are all present lists, the loops stay within the declared temp tables and CTEs,
\* and the ParsedSQL returned has lists ctes, subQueries and allQueries and such a
\* mainQuery.
C1_ParseReturnsValid ==
    /\ pc = "temps" =>
          /\ Len(ps.ctes) < Len(pre.tempTables)
          /\ ValidUnit(TempUnit(pre, Len(ps.ctes) + 1, ps.st).unit)
    /\ pc = "ctes" =>
          /\ Len(ps.ctes) - Len(pre.tempTables) < Len(pre.rawCTEs)
          /\ ValidUnit(CteUnit(pre, Len(ps.ctes) - Len(pre.tempTables) + 1, ps.st).unit)
    /\ pc = "main" =>
          /\ Len(ps.ctes) = Len(pre.tempTables) + Len(pre.rawCTEs)
          /\ ValidUnit(MainUnit(pre, ps.st).unit)
    /\ ParsedDone => ValidParsedSQL(parsed)

\* parseSQL has returned on a malformed script, with nothing extracted
C1_Witness ==
    /\ pc = "done"
    /\ sql \in Malformed(nOrders) \ {<<>>, <<SP>>}
    /\ parsed.mainQuery.tables = <<>>
    /\ parsed.subQueries = <<>>

\* the normalized bodies of the FROM ( SELECT ... ) and JOIN ( SELECT ... ) of a text,
\* at every depth
SubqueryBodies(text) ==
    {normalizeWhitespace(trim(SubSeq(text, m[2] + 1, m[3] - 1))) :
        m \in {FirstExtractable(text, kw, k) :
                  k \in 1..Len(text), kw \in {kwFrom, kwJoin}} \ {<<>>}}

\* the entries of subQueries made for a nested subquery (the others are the branches
\* of a complex UNION)
SubqueryEntries ==
    {k \in 1..Len(parsed.subQueries) : StartsWith(parsed.subQueries[k].id, sSubquery)}

\* C3 (as the spec states it): subQueries has exactly one entry for each distinct
\* normalized body of a nested FROM(...)/JOIN(...) subquery of the script, and the id
\* of every such entry is in the dependsOn of a unit.
C3_OneEntryPerBody ==
    ParsedDone =>
        /\ Cardinality(SubqueryEntries) = Cardinality(SubqueryBodies(sql))
        /\ \A k \in SubqueryEntries :
              \E j \in 1..Len(parsed.allQueries) :
                  \E n \in 1..Len(parsed.allQueries[j].dependsOn) :
                      parsed.allQueries[j].dependsOn[n] = parsed.subQueries[k].id

\* C4: the edge list never holds two edges with the same ordered (source, target)
\* pair, whichever rule pushed them.
C4_NoDuplicateEdges ==
    Assembling =>
        \A i, j \in 1..Len(graph.edges) :
            i < j => ~(/\ graph.edges[i].source = graph.edges[j].source
                       /\ graph.edges[i].target = graph.edges[j].target)

\* the graph of a UNION that names the same physical table twice: the union rule
\* asked for the same edge twice
C4_Witness ==
    /\ pc = "done"
    /\ Len(parsed.mainQuery.unionInfo.sources) = 2
    /\ parsed.mainQuery.unionInfo.sources[1] = parsed.mainQuery.unionInfo.sources[2]
    /\ \E k \in 1..Len(graph.edges) :
          graph.edges[k].isUnion /\ graph.edges[k].target = parsed.mainQuery.id

\* C5: in the assembled graph every unit whose tables list is not empty is the
\* target of at least one edge.
C5_UnitsWithTablesHaveIncomingEdge ==
    pc \in {"output", "done"} =>
        \A k \in 1..Len(parsed.allQueries) :
            parsed.allQueries[k].tables # <<>> =>
                \E e \in 1..Len(graph.edges) :
                    graph.edges[e].target = parsed.allQueries[k].id

\* a CTE that reads only itself: the orphan rescue gave it its one incoming edge
C5_Witness ==
    /\ pc = "done"
    /\ \E k \in 1..Len(parsed.ctes) :
          /\ parsed.ctes[k].tables # <<>>
          /\ Cardinality({e \in 1..Len(graph.edges) :
                            graph.edges[e].target = parsed.ctes[k].id}) = 1
          /\ \E e \in 1..Len(graph.edges) :
                /\ graph.edges[e].target = parsed.ctes[k].id
                /\ graph.edges[e].source = parsed.ctes[k].id

\* C6 (as the spec states it): the ids of the units of allQueries are pairwise
\* distinct.
C6_IdsDistinct ==
    ParsedDone =>
        \A i, j \in 1..Len(parsed.allQueries) :
            i # j => parsed.allQueries[i].id # parsed.allQueries[j].id

\* C7 (as the spec states it): no unit has its own id in its dependsOn.
C7_NoSelfDependency ==
    ParsedDone =>
        \A j \in 1..Len(parsed.allQueries) :
            \A n \in 1..Len(parsed.allQueries[j].dependsOn) :
                parsed.allQueries[j].dependsOn[n] # parsed.allQueries[j].id

\* ctes holds the temp tables in declaration order, then the CTEs in declaration order
CtesInDeclarationOrder ==
    /\ Len(parsed.ctes) = Len(pre.tempTables) + Len(pre.rawCTEs)
    /\ \A k \in 1..Len(pre.tempTables) :
          /\ parsed.ctes[k].isTempTable
          /\ parsed.ctes[k].name = pre.tempTables[k].name
    /\ \A k \in 1..Len(pre.rawCTEs) :
          /\ parsed.ctes[Len(pre.tempTables) + k].isCTE
          /\ ~parsed.ctes[Len(pre.tempTables) + k].isTempTable
          /\ parsed.ctes[Len(pre.tempTables) + k].name = pre.rawCTEs[k].name

\* C8 (as the spec states it): allQueries is ctes, then mainQuery, then subQueries.
C8_MainBeforeSubQueries ==
    ParsedDone =>
        /\ parsed.allQueries = parsed.ctes \o <<parsed.mainQuery>> \o parsed.subQueries
        /\ CtesInDeclarationOrder

\* C8 (amended): allQueries is ctes, then subQueries, then mainQuery, in that order,
\* where ctes holds all temp tables in declaration order followed by all CTEs in
\* declaration order.
C8_MainAfterSubQueries ==
    ParsedDone =>
        /\ parsed.allQueries = parsed.ctes \o parsed.subQueries \o <<parsed.mainQuery>>
        /\ CtesInDeclarationOrder

\* a script with a temp table, a CTE and a nested subquery has been parsed
C8_Witness ==
    /\ ParsedDone
    /\ Len(pre.tempTables) >= 1
    /\ Len(pre.rawCTEs) >= 1
    /\ Len(parsed.subQueries) >= 1
    /\ parsed.allQueries[Len(parsed.allQueries)] = parsed.mainQuery

\* a temp table or a CTE: a unit that dependsOn names by its declared name
IsDeclared(u) == u.isCTE \/ u.isTempTable

\* the entry d of a dependsOn names the unit u: a temp table or a CTE by its name in
\* lower case, a nested subquery or a union branch by its id
Names(d, u) ==
    IF IsDeclared(u) THEN d = toLowerCase(u.name)
    ELSE d = u.id \/ d = toLowerCase(u.id)

----------------------------------------------------------------------------
(* The loops of replaceSubqueries and the recursive calls of processSQL, one      *)
(* iteration and one call at a time.  loops is the call in progress: its text     *)
(* (sql), the text of the call that made it (parent), the variables of            *)
(* replaceSubqueries (result, counter, subs), the calls still to be made          *)
(* (pending, in the order the program makes them, each call of the loop over subs *)
(* followed by its processedBodies.set) and the keys of processedBodies (bodies). *)

MaxGrow == 4
MaxFragments == 4

\* JOIN(SELECT x FROM(SELECT x), FROM(SELECT x), ... ) with k inner subqueries
RECURSIVE GrowInner(_)
GrowInner(k) ==
    IF k = 0 THEN <<>>
    ELSE <<SP, txFrom, LP, txSelect, SP, nX, RP, COMMA>> \o GrowInner(k - 1)

Grow(k) == <<txJoin, LP, txSelect, SP, nX>> \o GrowInner(k) \o <<RP>>

GrowTexts == {Grow(k) : k \in 1..MaxGrow}

\* pieces of subqueries: an opened FROM and JOIN subquery, a closing parenthesis,
\* an alias with its ON, a UNION ALL, a SELECT
Fragments ==
    {<<txFrom, LP, txSelect, SP, nX, SP>>,
     <<txJoin, LP, txSelect, SP, nX, SP>>,
     <<RP>>,
     <<SP, nY, SP, txOn, SP, nCond, SP>>,
     <<txWhere, SP, nFlag, SP, txUnion, SP, txAll, SP>>,
     <<txSelect, SP, nX, SP>>}

\* the pieces written one after the other, adjacent chunks becoming one chunk
RECURSIVE Glue(_, _)
Glue(pieces, k) == IF k > Len(pieces) THEN <<>> ELSE Cat(pieces[k], Glue(pieces, k + 1))

FragmentTexts == {Glue(ps0, 1) : ps0 \in SeqsUpTo(Fragments, MaxFragments)}

LoopTexts == QueryTexts \cup GrowTexts \cup FragmentTexts

\* the state of a call of processSQL(text, ...) when it enters replaceSubqueries
StartCall(text, parent, nested, pending, bodies) ==
    [phase |-> "from", sql |-> text, parent |-> parent, nested |-> nested,
     result |-> normalizeWhitespace(text), counter |-> 0, subs |-> <<>>,
     pending |-> pending, bodies |-> bodies]

\* the variables of replaceSubqueries after an iteration
Stepped(l, s) == [l EXCEPT !.result = s.result, !.counter = s.counter, !.subs = s.subs]

\* the calls of the loop over subs (lines 1177-1200), before the cache is asked
SubCalls(text, subs) ==
    [k \in 1..Len(subs) |-> [text |-> subs[k].body, parent |-> text, kind |-> "sub"]]

\* the calls of the loop over the branches of a complex UNION (lines 1223-1242)
BranchCallsOf(text, split) ==
    IF Len(split.parts) > 1 /\ IsComplex(split.parts) /\ split.unionType # <<>>
    THEN [k \in 1..Len(split.parts) |->
            [text |-> split.parts[k], parent |-> text, kind |-> "branch"]]
    ELSE <<>>

BranchCalls(text) == BranchCallsOf(text, splitByUnion(normalizeWhitespace(text)))

InitLoops ==
    /\ sql \in LoopTexts
    /\ loops = StartCall(sql, <<>>, FALSE, <<>>, {})
    /\ pc = "loops"
    /\ pre = Idle
    /\ ps = [ctes |-> <<>>, st |-> EmptyCollector]
    /\ parsed = Idle
    /\ graph = Idle
    /\ keys = Idle

\* an iteration of the FROM loop that replaces a subquery (lines 870-894)
FromIteration ==
    /\ pc = "loops"
    /\ loops.phase = "from"
    /\ FirstExtractable(loops.result, kwFrom, 1) # <<>>
    /\ loops' = Stepped(loops, FromStep(loops.result, loops.counter, loops.subs))
    /\ UNCHANGED <<sql, pc, pre, ps, parsed, graph, keys>>

\* the iteration of the FROM loop that changes nothing
FromExit ==
    /\ pc = "loops"
    /\ loops.phase = "from"
    /\ FirstExtractable(loops.result, kwFrom, 1) = <<>>
    /\ loops' = [loops EXCEPT !.phase = "join"]
    /\ UNCHANGED <<sql, pc, pre, ps, parsed, graph, keys>>

\* an iteration of the JOIN loop that replaces a subquery (lines 898-930)
JoinIteration ==
    /\ pc = "loops"
    /\ loops.phase = "join"
    /\ FirstExtractable(loops.result, kwJoin, 1) # <<>>
    /\ loops' = Stepped(loops, JoinStep(loops.result, loops.counter, loops.subs))
    /\ UNCHANGED <<sql, pc, pre, ps, parsed, graph, keys>>

\* the iteration of the JOIN loop that changes nothing: replaceSubqueries returns,
\* and the calls of this call are the next ones to be made
JoinExit ==
    /\ pc = "loops"
    /\ loops.phase = "join"
    /\ FirstExtractable(loops.result, kwJoin, 1) = <<>>
    /\ loops' = [loops EXCEPT
                    !.phase = "calls",
                    !.pending = SubCalls(loops.sql, loops.subs)
                                \o BranchCalls(loops.sql) \o @]
    /\ UNCHANGED <<sql, pc, pre, ps, parsed, graph, keys>>

\* processedBodies has the body: no call (line 1182)
CacheHit ==
    /\ pc = "loops"
    /\ loops.phase = "calls"
    /\ loops.pending # <<>>
    /\ Head(loops.pending).kind = "sub"
    /\ normalizeWhitespace(Head(loops.pending).text) \in loops.bodies
    /\ loops' = [loops EXCEPT !.pending = Tail(@)]
    /\ UNCHANGED <<sql, pc, pre, ps, parsed, graph, keys>>

\* what is left to do once the call at the head of pending is made: for a call of
\* the loop over subs, processedBodies.set(bodyKey, subId) comes first (line 1194)
AfterCall(pending) ==
    IF Head(pending).kind = "sub"
    THEN <<[text |-> normalizeWhitespace(Head(pending).text),
            parent |-> Head(pending).parent, kind |-> "set"]>> \o Tail(pending)
    ELSE Tail(pending)

\* a recursive call of processSQL (lines 1188 and 1234)
Recurse ==
    /\ pc = "loops"
    /\ loops.phase = "calls"
    /\ loops.pending # <<>>
    /\ \/ Head(loops.pending).kind = "branch"
       \/ /\ Head(loops.pending).kind = "sub"
          /\ normalizeWhitespace(Head(loops.pending).text) \notin loops.bodies
    /\ loops' = StartCall(Head(loops.pending).text, Head(loops.pending).parent, TRUE,
                          AfterCall(loops.pending), loops.bodies)
    /\ UNCHANGED <<sql, pc, pre, ps, parsed, graph, keys>>

\* a recursive call of the loop over subs has returned: its body is cached
CacheSet ==
    /\ pc = "loops"
    /\ loops.phase = "calls"
    /\ loops.pending # <<>>
    /\ Head(loops.pending).kind = "set"
    /\ loops' = [loops EXCEPT !.pending = Tail(@),
                              !.bodies = @ \cup {Head(loops.pending).text}]
    /\ UNCHANGED <<sql, pc, pre, ps, parsed, graph, keys>>

\* no call is left: the outermost call returns
Return ==
    /\ pc = "loops"
    /\ loops.phase = "calls"
    /\ loops.pending = <<>>
    /\ loops' = [loops EXCEPT !.phase = "done"]
    /\ UNCHANGED <<sql, pc, pre, ps, parsed, graph, keys>>

NextLoops ==
    \/ FromIteration
    \/ FromExit
    \/ JoinIteration
    \/ JoinExit
    \/ CacheHit
    \/ Recurse
    \/ CacheSet
    \/ Return

SpecLoops == InitLoops /\ [][NextLoops]_vars

\* the number of parentheses of a text
ParenCount(text) == Cardinality({i \in 1..Len(text) : text[i] \in {LP, RP}})

\* an iteration of either loop leaves fewer subqueries to extract
IterationsExtract ==
    /\ FromIteration => CountExtractable(loops'.result, kwFrom, 1)
                            < CountExtractable(loops.result, kwFrom, 1)
    /\ JoinIteration => CountExtractable(loops'.result, kwJoin, 1)
                            < CountExtractable(loops.result, kwJoin, 1)

\* C2 (as the spec states it): each iteration of the FROM( and JOIN( loops strictly
\* reduces the number of extractable subqueries that remain, and every recursive
\* call of processSQL is made on a text with strictly fewer characters than the text
\* of the call that makes it.
C2_CallsOnShorterText ==
    [][/\ IterationsExtract
       /\ Recurse => TextLen(loops'.sql) < TextLen(loops'.parent)]_vars

\* C2 (amended): each iteration of the FROM( and JOIN( loops strictly reduces the
\* number of extractable subqueries that remain, and every recursive call of
\* processSQL is made on a text that has strictly fewer parentheses than the text of
\* the call that makes it, or as many parentheses and strictly fewer characters.
C2_CallsOnSmallerNesting ==
    [][/\ IterationsExtract
       /\ Recurse => \/ ParenCount(loops'.sql) < ParenCount(loops'.parent)
                     \/ /\ ParenCount(loops'.sql) = ParenCount(loops'.parent)
                        /\ TextLen(loops'.sql) < TextLen(loops'.parent)]_vars

\* a recursive call was made on a body that is longer than the text it was cut
\* from, and its own FROM loop has extracted nothing more
C2_Witness ==
    /\ pc = "loops"
    /\ loops.nested
    /\ loops.phase = "join"
    /\ TextLen(loops.sql) > TextLen(loops.parent)
    /\ ParenCount(loops.sql) < ParenCount(loops.parent)

----------------------------------------------------------------------------
(* classifyTable on one name, directly and through createTableRef *)

MaxClassLen == 3

\* the letters of app, dm, dwd and dws, an upper-case letter, _ and the dot of a
\* schema-qualified name
ClassChars == {"a", "p", "d", "m", "w", "s", "D", "_", "."}

ShortNames == UNION {[1..n -> ClassChars] : n \in 1..MaxClassLen}

pFact == <<"f", "a", "c", "t", "_">>
pF == <<"f", "_">>
pDim == <<"d", "i", "m", "_">>
pD == <<"d", "_">>

nDwdOrders == <<"d", "w", "d", "_", "o", "r", "d", "e", "r", "s">>
nDimCustomer == <<"d", "i", "m", "_", "c", "u", "s", "t", "o", "m", "e", "r">>
nRandomTbl == <<"r", "a", "n", "d", "o", "m", "_", "t", "b", "l">>
nFactOrders == <<"f", "a", "c", "t", "_", "o", "r", "d", "e", "r", "s">>
nFactOrderItems ==
    <<"f", "a", "c", "t", "_", "o", "r", "d", "e", "r", "_", "i", "t", "e", "m", "s">>
nDimProduct == <<"d", "i", "m", "_", "p", "r", "o", "d", "u", "c", "t">>

ClassNames ==
    ShortNames
    \cup {p \o s : p \in {pFact, pF, pDim, pD}, s \in ShortNames}
    \cup {nDwdOrders, nDimCustomer, nRandomTbl, nFactOrders, nFactOrderItems, nDimProduct}

InitClassify ==
    /\ keys \in {[name |-> x, step |-> "given"] : x \in ClassNames}
    /\ sql = <<>>
    /\ pc = "classify"
    /\ pre = Idle
    /\ ps = [ctes |-> <<>>, st |-> EmptyCollector]
    /\ parsed = Idle
    /\ graph = Idle
    /\ loops = Idle

\* classifyTable(name)
Classify ==
    /\ pc = "classify"
    /\ keys.step = "given"
    /\ keys' = [name |-> keys.name, step |-> "classified",
                type |-> classifyTable(keys.name)]
    /\ UNCHANGED <<sql, pc, pre, ps, parsed, graph, loops>>

\* createTableRef(name, name, []): the reference to a physical table
Refer ==
    /\ pc = "classify"
    /\ keys.step = "classified"
    /\ keys' = [name |-> keys.name, step |-> "referred", type |-> keys.type,
                ref |-> createTableRef(keys.name, keys.name, <<>>)]
    /\ UNCHANGED <<sql, pc, pre, ps, parsed, graph, loops>>

NextClassify ==
    \/ Classify
    \/ Refer

SpecClassify == InitClassify /\ [][NextClassify]_vars

\* name, in lower case, has p at some position
Contains(name, p) ==
    \E i \in 1..Len(name) :
        /\ i + Len(p) - 1 <= Len(name)
        /\ \A k \in 1..Len(p) : toLowerCase(name)[i + k - 1] = p[k]

HasFactMark(name) ==
    \/ Contains(name, <<"a", "p", "p">>)
    \/ Contains(name, <<"d", "m">>)
    \/ Contains(name, <<"d", "w", "d">>)
    \/ Contains(name, <<"d", "w", "s">>)

HasFactPrefix(name) == StartsWith(name, pFact) \/ StartsWith(name, pF)

HasDimPrefix(name) == StartsWith(name, pDim) \/ StartsWith(name, pD)

----------------------------------------------------------------------------
(* parseSQL followed by buildFlowElements on scripts built from a few parts, the *)
(* parts being kept in keys: a declared unit and a reference to it, a CTE over a *)
(* table, a UNION of tables.                                                     *)

MaxBranches == 3

nT1Upper == <<"T", "1">>
nT2Var == <<"$", "{", "T", "2", "}">>
nSchemaT == <<"s", ".", "t">>
nSchemaUnderT == <<"s", "_", "t">>
nJoins == <<"j", "o", "i", "n", "s">>
nDwd == <<"d", "w", "d", "_", "o">>

Case(case, kind, decl, body, ref, at, alias, tables, all) ==
    [case |-> case, kind |-> kind, decl |-> decl, body |-> body, ref |-> ref,
     at |-> at, alias |-> alias, tables |-> tables, all |-> all]

\* a temp table or a CTE named decl, and a query that names ref after FROM or JOIN
RefCases ==
    {Case("ref", kind, decl, nOrders, ref, at, <<>>, <<>>, FALSE) :
        kind \in {"temp", "cte"},
        decl \in {nT1, nT1Var, nT2},
        ref \in {nT1, nT1Var, nT1Upper, nT2, nT2Var, nOrders},
        at \in {"from", "join"}}

\* WITH decl AS (SELECT * FROM body [alias]) SELECT * FROM decl
CteCases ==
    {Case("cte", "cte", decl, body, decl, "from", alias, <<>>, FALSE) :
        decl \in {nC, nT2, nMain, nJoins},
        body \in {nOrders, nDim, nDwd, nSchemaT, nT1Upper},
        alias \in {<<>>, nX}}

\* SELECT * FROM t1 UNION [ALL] SELECT * FROM t2 ...
UnionCases ==
    {Case("union", "main", <<>>, <<>>, <<>>, "from", <<>>, tables, all) :
        tables \in UNION {[1..n -> {nOrders, nDim, nSchemaT, nSchemaUnderT, nJoins}] :
                            n \in 2..MaxBranches},
        all \in BOOLEAN}

Cases == RefCases \cup CteCases \cup UnionCases

UnionWords(all) == IF all THEN Words(<<txUnion, txAll>>) ELSE <<txUnion>>

RECURSIVE UnionOf(_, _, _)
UnionOf(tables, k, all) ==
    IF k = Len(tables) THEN SelectFrom(tables[k])
    ELSE Then(SelectFrom(tables[k]), Then(UnionWords(all), UnionOf(tables, k + 1, all)))

CaseMain(k) ==
    IF k.at = "from" THEN SelectFrom(k.ref)
    ELSE Then(SelectFrom(nDim), Words(<<txJoin, k.ref, nY, txOn, nCond>>))

CaseBody(k) ==
    IF k.alias = <<>> THEN SelectFrom(k.body) ELSE Then(SelectFrom(k.body), <<k.alias>>)

CaseScript(k) ==
    IF k.case = "union" THEN UnionOf(k.tables, 1, k.all)
    ELSE IF k.kind = "temp" THEN TempStmt(k.decl, CaseBody(k)) \o CaseMain(k)
    ELSE WithList(<<CteDecl(k.decl, CaseBody(k))>>, CaseMain(k))

InitCases ==
    /\ keys \in Cases
    /\ sql = CaseScript(keys)
    /\ pc = "start"
    /\ pre = Idle
    /\ ps = [ctes |-> <<>>, st |-> EmptyCollector]
    /\ parsed = Idle
    /\ graph = Idle
    /\ loops = Idle

SpecCases == InitCases /\ [][Next]_vars

\* the reference is ${N} and the declared temp table or CTE is N
WrappedReference ==
    /\ keys.case = "ref"
    /\ IsIdentifier(keys.decl)
    /\ keys.ref = Wrapped(keys.decl)

\* the reference is N and the declared temp table is ${N}
WrappedDeclaration ==
    /\ keys.case = "ref"
    /\ keys.kind = "temp"
    /\ IsIdentifier(keys.ref)
    /\ keys.decl = Wrapped(keys.ref)

\* the main query depends on the declared unit, and its TableRef of the reference
\* has no fact/dimension classification
ReferenceResolved ==
    /\ \E n \in 1..Len(parsed.mainQuery.dependsOn) :
          parsed.mainQuery.dependsOn[n] = toLowerCase(keys.decl)
    /\ \E n \in 1..Len(parsed.mainQuery.tables) :
          /\ parsed.mainQuery.tables[n].name = keys.ref
          /\ parsed.mainQuery.tables[n].type = "none"

\* C11: a FROM or JOIN reference written as ${N} resolves to a declared temp table
\* or CTE named N, and a reference written as N resolves to a temp table declared
\* as ${N}: in both directions the referencing unit's dependsOn gains that unit and
\* the TableRef is left without a fact/dimension classification.
C11_WrappedNamesResolve ==
    (ParsedDone /\ (WrappedReference \/ WrappedDeclaration)) => ReferenceResolved

\* the sources of the edges of the graph that go into the node target
SourcesInto(target) ==
    {graph.edges[n].source : n \in {i \in 1..Len(graph.edges) :
                                       graph.edges[i].target = target}}

\* the number of edges of the graph that go into the node target
EdgesInto(target) ==
    Cardinality({i \in 1..Len(graph.edges) : graph.edges[i].target = target})

\* C14: for WITH c AS (SELECT ... FROM t) SELECT ... FROM c with t a physical
\* table, ctes has one unit named c whose tables is [t], mainQuery.dependsOn is
\* exactly [c], and the graph has the edges source(t)->c, c->mainQuery and
\* mainQuery->output and no other edge into c or mainQuery.
C14_CteChain ==
    /\ (ParsedDone /\ keys.case = "cte") =>
          /\ Len(parsed.ctes) = 1
          /\ parsed.ctes[1].name = keys.decl
          /\ Len(parsed.ctes[1].tables) = 1
          /\ parsed.ctes[1].tables[1].name = keys.body
          /\ parsed.mainQuery.dependsOn = <<toLowerCase(keys.decl)>>
    /\ (pc = "done" /\ keys.case = "cte") =>
          /\ SourcesInto(parsed.ctes[1].id) = {SourceId(keys.body)}
          /\ EdgesInto(parsed.ctes[1].id) = 1
          /\ SourcesInto(parsed.mainQuery.id) = {parsed.ctes[1].id}
          /\ EdgesInto(parsed.mainQuery.id) = 1
          /\ \E n \in 1..Len(graph.edges) :
                /\ graph.edges[n].source = parsed.mainQuery.id
                /\ graph.edges[n].target = sOutput

\* the CTE is named main, its table is schema-qualified, and the graph is complete
C14_Witness ==
    /\ pc = "done"
    /\ keys.case = "cte"
    /\ keys.decl = nMain
    /\ keys.body = nSchemaT
    /\ SourcesInto(parsed.mainQuery.id) = {parsed.ctes[1].id}

\* the operator of a UNION case, as splitByUnion names it
CaseOperator == IF keys.all THEN TypeUnionAll ELSE TypeUnion

CaseTables == {keys.tables[n] : n \in 1..Len(keys.tables)}

\* the indexes of the edges from the source node of table t into the main query
EdgesFromTable(t) ==
    {i \in 1..Len(graph.edges) :
        /\ graph.edges[i].source = SourceId(t)
        /\ graph.edges[i].target = parsed.mainQuery.id}

\* C15: for a simple union of n branches SELECT ... FROM <physical table>, the
\* unit's unionInfo.sources lists the n table names in branch order with the
\* operator of the script, and the graph has one source node per distinct table and
\* exactly one union-styled edge, labelled with the operator, from each of those
\* source nodes into the unit, with no additional plain edge from those sources.
C15_SimpleUnion ==
    /\ (ParsedDone /\ keys.case = "union") =>
          parsed.mainQuery.unionInfo = [type |-> CaseOperator, sources |-> keys.tables]
    /\ (pc = "done" /\ keys.case = "union") =>
          /\ Cardinality({n \in 1..Len(graph.nodes) : graph.nodes[n].nodeType = "source"})
                = Cardinality(CaseTables)
          /\ \A t \in CaseTables :
                /\ Cardinality(EdgesFromTable(t)) = 1
                /\ \A i \in EdgesFromTable(t) :
                      graph.edges[i].isUnion /\ graph.edges[i].label = CaseOperator

----------------------------------------------------------------------------
(* Joins in the assembled graph *)

HasEdge(source, target) ==
    \E n \in 1..Len(graph.edges) :
        graph.edges[n].source = source /\ graph.edges[n].target = target

\* the number of joins of the first u units of allQueries
RECURSIVE JoinsUpTo(_)
JoinsUpTo(u) == IF u = 0 THEN 0 ELSE JoinsUpTo(u - 1) + Len(parsed.allQueries[u].joins)

\* the join nodes are numbered in the order of allQueries and of each unit's joins
JoinIdOf(u, k) == sJoinNode \o Digits(JoinsUpTo(u - 1) + k - 1)

\* the nodes that can stand for a table: its source node, or a unit of its name
NodesOf(table) ==
    {SourceId(table.name)}
    \cup {parsed.allQueries[q].id : q \in {i \in 1..Len(parsed.allQueries) :
            {flowGetMatchName(parsed.allQueries[i].name),
             flowGetMatchName(parsed.allQueries[i].id)}
            \cap {flowGetMatchName(table.name), flowGetMatchName(table.tableName)} # {}}}

\* the tables of a unit that none of its joins names
FromTablesOf(sq) ==
    {k \in 1..Len(sq.tables) :
        \A j \in 1..Len(sq.joins) :
            flowGetMatchName(sq.joins[j].table.name) # flowGetMatchName(sq.tables[k].name)}

\* no INNER, LEFT, RIGHT, FULL or CROSS is written in the script
NoJoinKindWritten == \A i \in 1..Len(sql) : toLowerCase(sql[i]) \notin JoinKinds

\* C16: for every JoinInfo of every unit the assembler creates exactly one new join
\* node (the number of join nodes is the total number of joins over allQueries),
\* with an edge join-target->join node, an edge join node->unit and, when the unit
\* has a FROM table, an edge FROM-table->join node; a JOIN written without
\* INNER/LEFT/RIGHT/FULL/CROSS gets joinType "INNER JOIN".
C16_OneJoinNodePerJoin ==
    /\ pc = "done" =>
          /\ Cardinality({n \in 1..Len(graph.nodes) : graph.nodes[n].type = "joinNode"})
                = JoinsUpTo(Len(parsed.allQueries))
          /\ \A u \in 1..Len(parsed.allQueries) :
                \A k \in 1..Len(parsed.allQueries[u].joins) :
                    /\ Cardinality({n \in 1..Len(graph.nodes) :
                                      /\ graph.nodes[n].id = JoinIdOf(u, k)
                                      /\ graph.nodes[n].type = "joinNode"
                                      /\ graph.nodes[n].label
                                           = parsed.allQueries[u].joins[k].type}) = 1
                    /\ HasEdge(JoinIdOf(u, k), parsed.allQueries[u].id)
                    /\ \E src \in NodesOf(parsed.allQueries[u].joins[k].table) :
                          HasEdge(src, JoinIdOf(u, k))
                    /\ FromTablesOf(parsed.allQueries[u]) # {} =>
                          \E t \in FromTablesOf(parsed.allQueries[u]) :
                              \E src \in NodesOf(parsed.allQueries[u].tables[t]) :
                                  HasEdge(src, JoinIdOf(u, k))
    /\ (ParsedDone /\ NoJoinKindWritten) =>
          \A u \in 1..Len(parsed.allQueries) :
              \A k \in 1..Len(parsed.allQueries[u].joins) :
                  parsed.allQueries[u].joins[k].type = <<txInner, SP, txJoin>>

\* a unit with two joins on subqueries and a FROM table: two join nodes, each with
\* its three edges
C16_Witness ==
    /\ pc = "done"
    /\ Len(parsed.mainQuery.joins) = 2
    /\ NoJoinKindWritten
    /\ Cardinality({n \in 1..Len(graph.nodes) : graph.nodes[n].type = "joinNode"}) >= 2
    /\ HasEdge(SourceId(nDim), JoinIdOf(Len(parsed.allQueries), 2))

----------------------------------------------------------------------------
(* splitByUnion on texts made of branches with a union operator between them *)

MaxOps == 2

nTUnion == <<"t", "_", "u", "n", "i", "o", "n">>
nAllow == <<"A", "L", "L", "O", "W">>
txUnionLower == <<"u", "n", "i", "o", "n">>
txAllLower == <<"a", "l", "l">>

\* FROM x, a table whose name ends in union, a parenthesis with a UNION inside,
\* an opened and a closed parenthesis, a name that starts with ALL
UnionBranches ==
    {<<txFrom, SP, nX>>,
     <<txFrom, SP, nTUnion>>,
     <<LP, txFrom, SP, nX, SP, txUnion, SP, txFrom, SP, nY, RP>>,
     <<LP, txFrom, SP, nX>>,
     <<txFrom, SP, nY, RP>>,
     <<nAllow>>}

UnionOperators == {<<txUnion>>, <<txUnion, SP, txAll>>, <<txUnionLower, SP, txAllLower>>}

UnionTexts ==
    {[branches |-> bs, ops |-> os, step |-> "given"] :
        bs \in UNION {[1..(n + 1) -> UnionBranches] : n \in 0..MaxOps},
        os \in UNION {[1..n -> UnionOperators] : n \in 0..MaxOps}}

\* the branches of k from the j-th on, the operators in cuts cutting the text and
\* the others staying in it; cur is the part that is being read
RECURSIVE PartsFrom(_, _, _, _)
PartsFrom(k, j, cur, cuts) ==
    IF j > Len(k.ops) THEN <<cur>>
    ELSE IF j \in cuts THEN <<cur>> \o PartsFrom(k, j + 1, k.branches[j + 1], cuts)
    ELSE PartsFrom(k, j + 1, cur \o <<SP>> \o k.ops[j] \o <<SP>> \o k.branches[j + 1], cuts)

\* the text: nothing is cut
UnionText(k) == PartsFrom(k, 1, k.branches[1], {})[1]

InitUnion ==
    /\ keys \in {k \in UnionTexts : Len(k.branches) = Len(k.ops) + 1}
    /\ sql = UnionText(keys)
    /\ pc = "union"
    /\ pre = Idle
    /\ ps = [ctes |-> <<>>, st |-> EmptyCollector]
    /\ parsed = Idle
    /\ graph = Idle
    /\ loops = Idle

\* splitByUnion(sql)
SplitUnion ==
    /\ pc = "union"
    /\ keys.step = "given"
    /\ keys' = [branches |-> keys.branches, ops |-> keys.ops, step |-> "split",
                result |-> splitByUnion(sql)]
    /\ UNCHANGED <<sql, pc, pre, ps, parsed, graph, loops>>

\* detectUnionAllTopLevel(sql, []) on the same text
DetectUnion ==
    /\ pc = "union"
    /\ keys.step = "split"
    /\ keys' = [branches |-> keys.branches, ops |-> keys.ops, step |-> "detected",
                result |-> keys.result, info |-> detectUnionAllTopLevel(sql, <<>>)]
    /\ UNCHANGED <<sql, pc, pre, ps, parsed, graph, loops>>

NextUnion ==
    \/ SplitUnion
    \/ DetectUnion

SpecUnion == InitUnion /\ [][NextUnion]_vars

\* opening minus closing parentheses
ParenBalance(text) ==
    Cardinality({i \in 1..Len(text) : text[i] = LP})
    - Cardinality({i \in 1..Len(text) : text[i] = RP})

RECURSIVE DepthAfter(_, _)
DepthAfter(k, j) == IF j = 0 THEN 0 ELSE DepthAfter(k, j - 1) + ParenBalance(k.branches[j])

\* the operators of the text that stand at parenthesis depth 0
TopLevelOps(k) == {j \in 1..Len(k.ops) : DepthAfter(k, j) = 0}

OperatorKind(op) == IF Len(op) = 1 THEN TypeUnion ELSE TypeUnionAll

\* every word of the text that ends in union is an operator, and every operator is
\* followed by a word that does not start with ALL
PlainBranches(k) ==
    \A j \in 1..Len(k.branches) : k.branches[j] \notin {<<txFrom, SP, nTUnion>>, <<nAllow>>}

\* no parenthesis of the text is closed before it was opened
WellNested(k) == \A j \in 1..Len(k.branches) : DepthAfter(k, j) >= 0

C19_SplitsOnlyAtTopLevelKeywords ==
    (keys.step # "given" /\ WellNested(keys))
        => \E cuts \in SUBSET TopLevelOps(keys) :
              keys.result.parts = PartsFrom(keys, 1, keys.branches[1], cuts)

----------------------------------------------------------------------------
(* splitStatements on texts made of words, quotes, parentheses and semicolons *)

MaxPieces == 4

nA == <<"a">>

\* a word, the punctuation, the three quotes, a backslash, a literal that holds
\* a semicolon and a literal that ends in a backslash
StatementPieces ==
    {<<nA>>, <<SEMI>>, <<LP>>, <<RP>>, <<SQUOTE>>, <<DQUOTE>>, <<BQUOTE>>, <<BSLASH>>,
     <<SQUOTE, SEMI, SQUOTE>>, <<SQUOTE, BSLASH, BSLASH, SQUOTE>>}

RECURSIVE Glued(_, _)
Glued(pieces, j) == IF j > Len(pieces) THEN <<>> ELSE pieces[j] \o Glued(pieces, j + 1)

\* the texts of at most MaxPieces pieces in which no two words touch
StatementTexts ==
    {t \in {Glued(pieces, 1) : pieces \in UNION {[1..n -> StatementPieces] : n \in 0..MaxPieces}} :
        \A i \in 1..(Len(t) - 1) : ~(t[i] = nA /\ t[i + 1] = nA)}

InitStatements ==
    /\ sql \in StatementTexts
    /\ keys = [step |-> "given"]
    /\ pc = "statements"
    /\ pre = Idle
    /\ ps = [ctes |-> <<>>, st |-> EmptyCollector]
    /\ parsed = Idle
    /\ graph = Idle
    /\ loops = Idle

\* splitStatements(sql)
SplitStatements ==
    /\ pc = "statements"
    /\ keys.step = "given"
    /\ keys' = [step |-> "split", statements |-> splitStatements(sql)]
    /\ UNCHANGED <<sql, pc, pre, ps, parsed, graph, loops>>

NextStatements == SplitStatements

SpecStatements == InitStatements /\ [][NextStatements]_vars

\* the quote character of the region that is open after lexeme i was read, a
\* region being closed by the next occurrence of the character that opened it
RECURSIVE OpenQuote(_, _)
OpenQuote(text, i) ==
    IF i = 0 THEN <<>>
    ELSE IF OpenQuote(text, i - 1) = <<>>
         THEN (IF text[i] \in {SQUOTE, DQUOTE, BQUOTE} THEN text[i] ELSE <<>>)
    ELSE IF text[i] = OpenQuote(text, i - 1) THEN <<>>
    ELSE OpenQuote(text, i - 1)

Unquoted(text, i) == OpenQuote(text, i - 1) = <<>> /\ OpenQuote(text, i) = <<>>

\* the parenthesis depth before lexeme i, counted over the unquoted lexemes
UnquotedDepth(text, i) ==
    Cardinality({j \in 1..(i - 1) : Unquoted(text, j) /\ text[j] = LP})
    - Cardinality({j \in 1..(i - 1) : Unquoted(text, j) /\ text[j] = RP})

\* the ; at which the text may be cut
TopLevelSemicolons(text) ==
    {i \in 1..Len(text) : text[i] = SEMI /\ Unquoted(text, i) /\ UnquotedDepth(text, i) = 0}

\* C20: the statements are the pieces of the text between some of its ; that are
\* outside the quoted regions and at depth 0, so a ; inside a region is kept
C20_CutsOnlyAtTopLevelSemicolons ==
    keys.step = "split"
        => \E cuts \in SUBSET TopLevelSemicolons(sql) :
              keys.statements = NonEmpty(TrimAll(Pieces(sql, Ascending(cuts))))

----------------------------------------------------------------------------
(* parseSQL followed by buildFlowElements on scripts of declared units, each    *)
(* reading one name: temp tables, then the CTEs of a WITH list, then a query.   *)
(* keys keeps the units (kind, name, the name read) and the name the query      *)
(* reads.                                                                       *)

MaxUnits == 3

UnitNames == {nT1, nC}

UnitRefs == {nT1Upper, nC, nOrders}

DeclaredUnits ==
    {[kind |-> kind, name |-> name, ref |-> ref] :
        kind \in {"temp", "cte"}, name \in UnitNames, ref \in UnitRefs}

\* the temp tables come before the CTEs
TempsFirst(us) ==
    \A i, j \in 1..Len(us) : (i < j /\ us[j].kind = "temp") => us[i].kind = "temp"

OrderCases ==
    {[case |-> "order", units |-> us, ref |-> ref] :
        us \in {u \in SeqsUpTo(DeclaredUnits, MaxUnits) : Len(u) > 0 /\ TempsFirst(u)},
        ref \in {nOrders}}

UnitsOfKind(k, kind) == Pick(k.units, {i \in 1..Len(k.units) : k.units[i].kind = kind})

OrderTemps(us) == [i \in 1..Len(us) |-> TempStmt(us[i].name, SelectFrom(us[i].ref))]

OrderCtes(us) == [i \in 1..Len(us) |-> CteDecl(us[i].name, SelectFrom(us[i].ref))]

OrderScript(k) ==
    Statements(OrderTemps(UnitsOfKind(k, "temp")))
    \o WithList(OrderCtes(UnitsOfKind(k, "cte")), SelectFrom(k.ref))

InitOrder ==
    /\ keys \in OrderCases
    /\ sql = OrderScript(keys)
    /\ pc = "start"
    /\ pre = Idle
    /\ ps = [ctes |-> <<>>, st |-> EmptyCollector]
    /\ parsed = Idle
    /\ graph = Idle
    /\ loops = Idle

SpecOrder == InitOrder /\ [][Next]_vars

\* the units that the i-th unit can see: a temp table the temp tables before it,
\* a CTE the temp tables and the CTEs before it
VisibleTo(k, i) ==
    {j \in 1..(i - 1) : k.units[i].kind = "cte" \/ k.units[j].kind = "temp"}

\* the units that the name read by the i-th unit names
NamedBy(k, i) ==
    {j \in 1..Len(k.units) : getMatchName(k.units[j].name) = getMatchName(k.units[i].ref)}

\* C21: a unit depends on the name it reads exactly when the name is the one of
\* a unit it can see (a temp table: the temp tables before it; a CTE: the temp
\* tables and the CTEs before it), and then on the first such unit; otherwise,
\* and so when only itself or later units have the name, its dependsOn stays
\* empty and the name is a table classified as fact or dimension
C21_VisibilityFollowsDeclarationOrder ==
    (ParsedDone /\ keys.case = "order") =>
        /\ Len(parsed.ctes) = Len(keys.units)
        /\ \A i \in 1..Len(keys.units) :
              /\ Len(parsed.ctes[i].tables) = 1
              /\ parsed.ctes[i].tables[1].name = keys.units[i].ref
              /\ IF NamedBy(keys, i) \cap VisibleTo(keys, i) # {}
                 THEN /\ parsed.ctes[i].dependsOn
                           = <<toLowerCase(keys.units[
                                   Least(NamedBy(keys, i) \cap VisibleTo(keys, i))].name)>>
                      /\ parsed.ctes[i].tables[1].type = "none"
                 ELSE /\ parsed.ctes[i].dependsOn = <<>>
                      /\ parsed.ctes[i].tables[1].type \in {"fact", "dimension"}

\* a temp table reads a temp table declared after it and a CTE reads a CTE
\* declared after it: both names stay physical tables, while the later units
\* depend on the earlier ones
C21_Witness ==
    /\ pc = "done"
    /\ keys.case = "order"
    /\ \E i, j \in 1..Len(keys.units) :
          /\ i < j
          /\ keys.units[i].kind = keys.units[j].kind
          /\ NamedBy(keys, i) = {j}
          /\ NamedBy(keys, j) = {i}
          /\ parsed.ctes[i].dependsOn = <<>>
          /\ parsed.ctes[i].tables[1].type = "dimension"
          /\ parsed.ctes[j].dependsOn = <<toLowerCase(keys.units[i].name)>>

----------------------------------------------------------------------------
(* parseSQL followed by buildFlowElements on scripts of declarations: temp      *)
(* tables, a WITH list or none, and then nothing, a statement that is not a     *)
(* SELECT, or a query                                                           *)

MaxDdlTemps == 2

txDrop == <<"d", "r", "o", "p">>

DdlCases ==
    {[case |-> "ddl", names |-> names, with |-> with, rest |-> rest] :
        names \in SeqsUpTo({nT1, nT2, nT1Var, nSchemaT}, MaxDdlTemps),
        with \in BOOLEAN,
        rest \in {"none", "drop", "select"}}

DdlTemps(names) == [i \in 1..Len(names) |-> TempStmt(names[i], SelectFrom(nOrders))]

DdlRest(k) ==
    IF k.rest = "none" THEN <<>>
    ELSE IF k.rest = "drop" THEN Words(<<txDrop, txTable, nX>>) \o <<SEMI>>
    ELSE SelectFrom(nOrders)

DdlTail(k) ==
    IF ~k.with THEN DdlRest(k)
    ELSE IF k.rest = "drop"
         THEN <<txWith, SP>> \o CteDecl(nC, SelectFrom(nOrders)) \o <<SEMI, NL>> \o DdlRest(k)
    ELSE WithList(<<CteDecl(nC, SelectFrom(nOrders))>>, DdlRest(k))

DdlScript(k) == Statements(DdlTemps(k.names)) \o DdlTail(k)

InitDdl ==
    /\ keys \in DdlCases
    /\ sql = DdlScript(keys)
    /\ pc = "start"
    /\ pre = Idle
    /\ ps = [ctes |-> <<>>, st |-> EmptyCollector]
    /\ parsed = Idle
    /\ graph = Idle
    /\ loops = Idle

SpecDdl == InitDdl /\ [][Next]_vars

\* no SELECT is written in the text
NoSelect(text) == \A i \in 1..Len(text) : toLowerCase(text[i]) # kwSelect

\* C22: when no SELECT is left once the temp tables and the CTEs are taken out,
\* the main query has a table, and with a temp table declared its dependsOn
\* names the last temp table
C22_DdlOnlyReadsLastTemp ==
    (ParsedDone /\ keys.case = "ddl" /\ NoSelect(pre.remainingSQL)) =>
        /\ parsed.mainQuery.tables # <<>>
        /\ Len(keys.names) > 0 =>
              \E n \in 1..Len(parsed.mainQuery.dependsOn) :
                  parsed.mainQuery.dependsOn[n]
                    = toLowerCase(cleanName(<<keys.names[Len(keys.names)]>>))

----------------------------------------------------------------------------
(* parseSQL followed by buildFlowElements on a UNION whose branches are plain   *)
(* or hold a WHERE, a JOIN, a GROUP BY, a HAVING or a nested SELECT; the UNION  *)
(* is the query of the script or the body of a CTE.  keys keeps the branches.   *)

MaxParts == 3

txGroup == <<"G", "R", "O", "U", "P">>
txBy == <<"B", "Y">>
txHaving == <<"H", "A", "V", "I", "N", "G">>

BranchKinds == {"plain", "where", "join", "group", "having", "nested"}

BranchText(kind) ==
    IF kind = "plain" THEN SelectFrom(nOrders)
    ELSE IF kind = "where" THEN Then(SelectFrom(nOrders), Words(<<txWhere, nFlag>>))
    ELSE IF kind = "join" THEN Then(SelectFrom(nOrders), Words(<<txJoin, nDim, txOn, nCond>>))
    ELSE IF kind = "group" THEN Then(SelectFrom(nOrders), Words(<<txGroup, txBy, nFlag>>))
    ELSE IF kind = "having" THEN Then(SelectFrom(nOrders), Words(<<txHaving, nFlag>>))
    ELSE Nested(nDim, 1)

BranchCases ==
    {[case |-> "branches", kinds |-> kinds, all |-> all, in |-> in] :
        kinds \in UNION {[1..n -> BranchKinds] : n \in 2..MaxParts},
        all \in BOOLEAN,
        in \in {"main", "cte", "temp"}}

RECURSIVE BranchesFrom(_, _, _)
BranchesFrom(kinds, k, all) ==
    IF k = Len(kinds) THEN BranchText(kinds[k])
    ELSE Then(BranchText(kinds[k]), Then(UnionWords(all), BranchesFrom(kinds, k + 1, all)))

BranchScript(k) ==
    IF k.in = "main" THEN BranchesFrom(k.kinds, 1, k.all)
    ELSE IF k.in = "temp"
         THEN TempStmt(nT1, BranchesFrom(k.kinds, 1, k.all)) \o SelectFrom(nT1)
    ELSE WithList(<<CteDecl(nC, BranchesFrom(k.kinds, 1, k.all))>>, SelectFrom(nC))

InitBranches ==
    /\ keys \in BranchCases
    /\ sql = BranchScript(keys)
    /\ pc = "start"
    /\ pre = Idle
    /\ ps = [ctes |-> <<>>, st |-> EmptyCollector]
    /\ parsed = Idle
    /\ graph = Idle
    /\ loops = Idle

SpecBranches == InitBranches /\ [][Next]_vars

\* the unit of the UNION
UnionOwner == IF keys.in = "main" THEN parsed.mainQuery ELSE parsed.ctes[1]

\* the id processSQL was given for it: a temp table is parsed as temp_<name>
\* and renamed temp_node_<name> afterwards
UnionOwnerId == IF keys.in = "temp" THEN sTemp \o nT1 ELSE UnionOwner.id

\* the ids of the branches, in branch order
BranchIds(id, k) == [i \in 1..k |-> BranchId(id, i - 1)]

\* the ids of the units of subQueries that are branches of the unit id, in the
\* order of subQueries
BranchUnitIds(id) ==
    LET S == {n \in 1..Len(parsed.subQueries) :
                 StartsWith(parsed.subQueries[n].id, id \o sUnion)}
    IN [n \in 1..Cardinality(S) |-> parsed.subQueries[Ascending(S)[n]].id]

\* C23: when one of the k branches of a UNION holds a WHERE, a JOIN, a GROUP BY,
\* a HAVING or a nested SELECT, subQueries has exactly the k branch units of the
\* unit, in branch order, and the unit has no tables, fields, joins or filters
\* of its own, its dependsOn and its unionInfo.sources being the k branch ids
C23_ComplexUnionPromotesBranches ==
    (ParsedDone /\ keys.case = "branches"
        /\ \E n \in 1..Len(keys.kinds) : keys.kinds[n] # "plain") =>
        /\ BranchUnitIds(UnionOwnerId) = BranchIds(UnionOwnerId, Len(keys.kinds))
        /\ UnionOwner.tables = <<>>
        /\ UnionOwner.fields = <<>>
        /\ UnionOwner.joins = <<>>
        /\ UnionOwner.filters = <<>>
        /\ UnionOwner.dependsOn = BranchIds(UnionOwnerId, Len(keys.kinds))
        /\ UnionOwner.unionInfo.sources = BranchIds(UnionOwnerId, Len(keys.kinds))
        /\ UnionOwner.unionInfo.type = (IF keys.all THEN TypeUnionAll ELSE TypeUnion)

\* a UNION of three branches in a CTE, the last one with a nested SELECT: the
\* nested subquery and the three branches are in subQueries
C23_Witness ==
    /\ pc = "done"
    /\ keys.case = "branches"
    /\ keys.in = "cte"
    /\ keys.kinds = <<"plain", "group", "nested">>
    /\ Len(parsed.subQueries) = 4
    /\ parsed.ctes[1].dependsOn = BranchIds(parsed.ctes[1].id, 3)

----------------------------------------------------------------------------
(* Placeholders and extracted subqueries in the units of parseSQL *)

\* the text parseSQL gives processSQL for the main query (lines 1424-1426)
FinalSQL(p) ==
    IF trim(p.remainingSQL) # <<>> THEN p.remainingSQL
    ELSE IF Len(p.tempTables) > 0
         THEN SelectFrom(toLowerCase(p.tempTables[Len(p.tempTables)].name))
    ELSE SelectFrom(sDual)

\* the texts of the temp tables, of the CTEs and of the main query, in the order
\* of ctes followed by mainQuery
UnitTexts(p) ==
    [i \in 1..Len(p.tempTables) |-> p.tempTables[i].body]
    \o [i \in 1..Len(p.rawCTEs) |-> p.rawCTEs[i].body]
    \o <<FinalSQL(p)>>

ParsedUnits == parsed.ctes \o <<parsed.mainQuery>>

\* the subqueries extracted from the text of a unit
ExtractedFrom(text) == replaceSubqueries(normalizeWhitespace(text)).subs

\* the unit is flat: its text is not a UNION with a branch that makes it complex
IsFlatText(text) ==
    ~(/\ Len(splitByUnion(normalizeWhitespace(text)).parts) > 1
      /\ IsComplex(splitByUnion(normalizeWhitespace(text)).parts))

IsPlaceholderName(name) == StartsWith(name, PlaceholderPrefix)

\* the id the subquery was resolved to
ResolvedId(info) == BodiesGet(ps.st.bodies, normalizeWhitespace(info.body))

\* C24: no table and no join of a flat unit has a placeholder name, every
\* subquery extracted from the unit's text is one of its tables under its
\* resolved id, and one extracted after JOIN is also one of its joins, with its
\* join type and condition, with or without an ON clause
C24_PlaceholdersResolved ==
    ParsedDone =>
        \A u \in 1..Len(ParsedUnits) :
            IsFlatText(UnitTexts(pre)[u]) =>
                /\ \A t \in 1..Len(ParsedUnits[u].tables) :
                      ~IsPlaceholderName(ParsedUnits[u].tables[t].name)
                /\ \A j \in 1..Len(ParsedUnits[u].joins) :
                      ~IsPlaceholderName(ParsedUnits[u].joins[j].table.name)
                /\ \A n \in 1..Len(ExtractedFrom(UnitTexts(pre)[u])) :
                      /\ \E t \in 1..Len(ParsedUnits[u].tables) :
                            ParsedUnits[u].tables[t].name
                              = ResolvedId(ExtractedFrom(UnitTexts(pre)[u])[n])
                      /\ ExtractedFrom(UnitTexts(pre)[u])[n].context = "join" =>
                            \E j \in 1..Len(ParsedUnits[u].joins) :
                                /\ ParsedUnits[u].joins[j].table.name
                                     = ResolvedId(ExtractedFrom(UnitTexts(pre)[u])[n])
                                /\ ParsedUnits[u].joins[j].type
                                     = ExtractedFrom(UnitTexts(pre)[u])[n].joinType
                                /\ ParsedUnits[u].joins[j].condition
                                     = ExtractedFrom(UnitTexts(pre)[u])[n].joinCondition

----------------------------------------------------------------------------
(* replaceSubqueries on queries whose sources are tables or parentheses, closed *)
(* or left open                                                                 *)

MaxOpen == 2

\* SELECT * FROM orders, or SELECT * FROM ( q ) x with the parenthesis closed or not
RECURSIVE OpenQueries(_)
OpenQueries(d) ==
    IF d = 0 THEN {SelectFrom(nOrders)}
    ELSE OpenQueries(d - 1)
         \cup {Words(<<txSelect, STAR, txFrom>>) \o <<SP, LP>> \o q \o <<RP, SP, nX>> :
                  q \in OpenQueries(d - 1)}
         \cup {Words(<<txSelect, STAR, txFrom>>) \o <<SP, LP>> \o q : q \in OpenQueries(d - 1)}

\* what stands after FROM or JOIN: a table, a subquery closed or not, a
\* parenthesis that holds no SELECT
OpenSources ==
    {<<nDim>>, <<LP, nDim, RP>>}
    \cup {<<LP>> \o q \o <<RP, SP, nY>> : q \in OpenQueries(MaxOpen - 1)}
    \cup {<<LP>> \o q : q \in OpenQueries(MaxOpen - 1)}

OpenTexts ==
    {Words(<<txSelect, STAR, txFrom>>) \o <<SP>> \o a : a \in OpenSources}
    \cup {Words(<<txSelect, STAR, txFrom>>) \o <<SP>> \o a \o <<SP, txJoin, SP>> \o b
             \o <<SP, txOn, SP, nCond>> :
             a \in OpenSources, b \in OpenSources}

InitReplace ==
    /\ sql \in OpenTexts
    /\ keys = [step |-> "given"]
    /\ pc = "replace"
    /\ pre = Idle
    /\ ps = [ctes |-> <<>>, st |-> EmptyCollector]
    /\ parsed = Idle
    /\ graph = Idle
    /\ loops = Idle

\* replaceSubqueries(sql)
Replace ==
    /\ pc = "replace"
    /\ keys.step = "given"
    /\ keys' = [step |-> "replaced", result |-> replaceSubqueries(sql)]
    /\ UNCHANGED <<sql, pc, pre, ps, parsed, graph, loops>>

NextReplace == Replace

SpecReplace == InitReplace /\ [][NextReplace]_vars

\* the FROM and JOIN of a text that are followed by a parenthesis
OpensAfterKeyword(text) ==
    {i \in 1..Len(text) :
        /\ Ends(text[i], kwFrom) \/ Ends(text[i], kwJoin)
        /\ SkipSpace(text, i + 1) <= Len(text)
        /\ text[SkipSpace(text, i + 1)] = LP}

\* those whose parenthesis is never closed
Unmatched(text) ==
    {i \in OpensAfterKeyword(text) :
        \A j \in SkipSpace(text, i + 1)..Len(text) :
            ~(text[j] = RP /\ Balance(text, SkipSpace(text, i + 1), j) = 0)}

PlaceholdersIn(text) == {i \in 1..Len(text) : StartsWith(text[i], PlaceholderPrefix)}

\* C25: the FROM ( and JOIN ( whose parenthesis is never closed are still in the
\* text returned, each placeholder of the text returned is the one of a recorded
\* subquery, and when no parenthesis after FROM or JOIN is closed the text is
\* returned as it was, with no subquery recorded
C25_UnmatchedParenthesisSkipped ==
    keys.step = "replaced" =>
        /\ Cardinality(Unmatched(keys.result.replaced)) = Cardinality(Unmatched(sql))
        /\ \A i \in PlaceholdersIn(keys.result.replaced) :
              \E n \in 1..Len(keys.result.subs) :
                  keys.result.subs[n].placeholder = keys.result.replaced[i]
        /\ Len(keys.result.subs) <= Cardinality(OpensAfterKeyword(sql) \ Unmatched(sql))
        /\ Unmatched(sql) = OpensAfterKeyword(sql) =>
              /\ keys.result.replaced = sql
              /\ keys.result.subs = <<>>

\* an open parenthesis after FROM stays, and a subquery inside it is replaced
C25_Witness ==
    /\ keys.step = "replaced"
    /\ Cardinality(Unmatched(sql)) >= 1
    /\ Cardinality(Unmatched(keys.result.replaced)) >= 1
    /\ Len(keys.result.subs) >= 1

----------------------------------------------------------------------------
(* extractCTEs on WITH lists: the groups, the last one closed or not, a comma   *)
(* after the last one or not, and a query or nothing after the list             *)

MaxDecls == 2

WithDecls == {[name |-> name, body |-> body] :
                 name \in {nC, nD}, body \in {SelectFrom(nOrders), Nested(nOrders, 1)}}

WithCases ==
    {[decls |-> ds, closed |-> closed, comma |-> comma, main |-> main, step |-> "given"] :
        ds \in SeqsUpTo(WithDecls, MaxDecls) \ {<<>>},
        closed \in BOOLEAN,
        comma \in BOOLEAN,
        main \in {<<>>, SelectFrom(nC)}}

\* name AS (body), the parenthesis of the last group left open when closed is false
GroupText(k, j) ==
    IF j = Len(k.decls) /\ ~k.closed
    THEN <<k.decls[j].name, SP, txAs, SP, LP>> \o k.decls[j].body
    ELSE CteDecl(k.decls[j].name, k.decls[j].body)

\* what is written after the j-th group
RECURSIVE AfterGroup(_, _)
AfterGroup(k, j) ==
    IF j = Len(k.decls)
    THEN (IF k.comma THEN <<COMMA>> ELSE <<>>)
         \o (IF k.main = <<>> THEN <<>> ELSE <<SP>> \o k.main)
    ELSE <<COMMA, SP>> \o GroupText(k, j + 1) \o AfterGroup(k, j + 1)

WithText(k) == <<txWith, SP>> \o GroupText(k, 1) \o AfterGroup(k, 1)

InitWith ==
    /\ keys \in {k \in WithCases : k.closed \/ Len(k.decls) > 1}
    /\ sql = WithText(keys)
    /\ pc = "with"
    /\ pre = Idle
    /\ ps = [ctes |-> <<>>, st |-> EmptyCollector]
    /\ parsed = Idle
    /\ graph = Idle
    /\ loops = Idle

\* extractCTEs(sql)
ExtractWith ==
    /\ pc = "with"
    /\ keys.step = "given"
    /\ keys' = [keys EXCEPT !.step = "extracted"] @@ [result |-> extractCTEs(sql)]
    /\ UNCHANGED <<sql, pc, pre, ps, parsed, graph, loops>>

NextWith == ExtractWith

SpecWith == InitWith /\ [][NextWith]_vars

\* a text without the comma and the spaces it may start with
AfterComma(text) ==
    IF text # <<>> /\ text[1] = COMMA THEN trim(SubSeq(text, 2, Len(text))) ELSE trim(text)

\* C26: when groups are extracted, the main query text is the text after the
\* last extracted group and none of the extracted definitions is in it, also
\* with a comma after the last group or with a later group left open
C26_MainTextFollowsLastGroup ==
    (keys.step = "extracted" /\ Len(keys.result.ctes) >= 1) =>
        /\ keys.result.remainingSQL \in
              {trim(AfterGroup(keys, Len(keys.result.ctes))),
               AfterComma(AfterGroup(keys, Len(keys.result.ctes)))}
        /\ \A i \in 1..Len(keys.result.remainingSQL) :
              ~Is(keys.result.remainingSQL[i], kwWith)

----------------------------------------------------------------------------
(* Nodes of the assembled graph *)

\* the table is a physical one for the assembler: no unit has its name
IsPhysicalName(name, tableName) ==
    NodeIdFor(graph.nodeIdMap, flowGetMatchName(tableName), flowGetMatchName(name)) = <<>>

\* the full names, in lower case, of the physical tables the units read
PhysicalNames ==
    UNION {{toLowerCase(parsed.allQueries[u].tables[t].name) :
                t \in {i \in 1..Len(parsed.allQueries[u].tables) :
                          IsPhysicalName(parsed.allQueries[u].tables[i].name,
                                         parsed.allQueries[u].tables[i].tableName)}} :
           u \in 1..Len(parsed.allQueries)}

SourceNodes == {n \in 1..Len(graph.nodes) : graph.nodes[n].nodeType = "source"}

\* C27: in the assembled graph the node ids are pairwise distinct and there is
\* one source node for each physical table, two tables whose full names differ
\* in more than their case having two source nodes
C27_OneSourceNodePerTable ==
    pc = "done" =>
        /\ \A i, j \in 1..Len(graph.nodes) :
              i # j => graph.nodes[i].id # graph.nodes[j].id
        /\ \A name \in PhysicalNames :
              \E n \in SourceNodes : graph.nodes[n].id = SourceId(name)
        /\ Cardinality(SourceNodes) = Cardinality(PhysicalNames)

----------------------------------------------------------------------------
(* parseSQL followed by buildFlowElements on scripts whose declarations share   *)
(* a name or are named like the id of another declaration                       *)

MaxNamed == 2

nCte0 == <<"c", "t", "e", "_", "0">>
nCte1 == <<"c", "t", "e", "_", "1">>
nTempNodeT1 == <<"t", "e", "m", "p", "_", "n", "o", "d", "e", "_", "t", "1">>

SharedNames == {nT1, nC, nCte0, nCte1, nTempNodeT1}

NamedUnits == {[kind |-> kind, name |-> name] : kind \in {"temp", "cte"}, name \in SharedNames}

NameCases ==
    {[case |-> "names", units |-> us, ref |-> ref] :
        us \in {u \in SeqsUpTo(NamedUnits, MaxNamed) : Len(u) > 0 /\ TempsFirst(u)},
        ref \in SharedNames}

NamedTemps(us) == [i \in 1..Len(us) |-> TempStmt(us[i].name, SelectFrom(nOrders))]

NamedCtes(us) == [i \in 1..Len(us) |-> CteDecl(us[i].name, SelectFrom(nOrders))]

NameScript(k) ==
    Statements(NamedTemps(UnitsOfKind(k, "temp")))
    \o WithList(NamedCtes(UnitsOfKind(k, "cte")), SelectFrom(k.ref))

InitNames ==
    /\ keys \in NameCases
    /\ sql = NameScript(keys)
    /\ pc = "start"
    /\ pre = Idle
    /\ ps = [ctes |-> <<>>, st |-> EmptyCollector]
    /\ parsed = Idle
    /\ graph = Idle
    /\ loops = Idle

SpecNames == InitNames /\ [][Next]_vars

\* the declared units that a name matches, by their name or by their id
MatchedUnits(name) ==
    {j \in 1..Len(parsed.ctes) :
        \/ getMatchName(parsed.ctes[j].name) = getMatchName(name)
        \/ getMatchName(parsed.ctes[j].id) = getMatchName(name)}

EdgeBetween(sourceId, targetId) ==
    \E e \in 1..Len(graph.edges) :
        graph.edges[e].source = sourceId /\ graph.edges[e].target = targetId

\* C28: when the name read by the main query matches more than one declared
\* unit (by name, or by generated id), the main query depends on the first of
\* them in declaration order and the one edge into it from a declared unit
\* comes from that first unit
C28_FirstMatchWins ==
    (pc = "done" /\ keys.case = "names" /\ Cardinality(MatchedUnits(keys.ref)) > 1) =>
        LET first == parsed.ctes[Least(MatchedUnits(keys.ref))]
        IN /\ parsed.mainQuery.dependsOn = <<toLowerCase(first.name)>>
           /\ EdgeBetween(first.id, parsed.mainQuery.id)
           /\ \A j \in MatchedUnits(keys.ref) :
                 parsed.ctes[j].id # first.id =>
                     ~EdgeBetween(parsed.ctes[j].id, parsed.mainQuery.id)

----------------------------------------------------------------------------
(* Edges of the assembled graph *)

\* C29: no edge of an assembled graph goes from a node to itself
C29_NoSelfLoop ==
    pc = "done" =>
        \A e \in 1..Len(graph.edges) : graph.edges[e].source # graph.edges[e].target

\* the ids that can be reached from the ids of `from` along at most n edges
RECURSIVE ReachedFrom(_, _)
ReachedFrom(from, n) ==
    IF n = 0
    THEN from
    ELSE ReachedFrom(from \cup {graph.edges[e].target :
                                   e \in {d \in 1..Len(graph.edges) :
                                             graph.edges[d].source \in from}},
                     n - 1)

\* the ids reached from id along one edge or more
Downstream(id) ==
    ReachedFrom({graph.edges[e].target :
                    e \in {d \in 1..Len(graph.edges) : graph.edges[d].source = id}},
                Len(graph.edges))

NodeIds == {graph.nodes[n].id : n \in 1..Len(graph.nodes)}

\* C30: no directed cycle goes through two nodes or more, and the output node
\* has one incoming edge, from the main query, and no outgoing edge
C30_AcyclicWithOneOutputEdge ==
    pc = "done" =>
        /\ \A a, b \in NodeIds : (a # b /\ b \in Downstream(a)) => a \notin Downstream(b)
        /\ \A e \in 1..Len(graph.edges) :
              /\ graph.edges[e].source # sOutput
              /\ graph.edges[e].target = sOutput =>
                    graph.edges[e].source = parsed.mainQuery.id
        /\ Cardinality({e \in 1..Len(graph.edges) : graph.edges[e].target = sOutput}) = 1

====
